---- MODULE Spec2Model ----
(***************************************************************************)
(* Model of qor5/confx: the schema walker (initializeRecursive), the       *)
(* loader returned by Initialize (one-shot parse/bind, file merge,         *)
(* unmarshal, validation) and the identifier derivation.                   *)
(*                                                                         *)
(* Strings are sequences of one-character strings, so that case            *)
(* conversion, splitting and regular-expression rewriting are computed.    *)
(***************************************************************************)
EXTENDS Integers, Sequences, FiniteSets, TLC

\* ------------------------------------------------------------------------
\* Characters and strings
\* ------------------------------------------------------------------------
LowerCh == <<"a","b","c","d","e","f","g","h","i","j","k","l","m",
             "n","o","p","q","r","s","t","u","v","w","x","y","z">>

UpperCh == <<"A","B","C","D","E","F","G","H","I","J","K","L","M",
             "N","O","P","Q","R","S","T","U","V","W","X","Y","Z">>

DigitCh == <<"0","1","2","3","4","5","6","7","8","9">>

IsLower(c) == \E i \in 1..26 : LowerCh[i] = c

IsUpper(c) == \E i \in 1..26 : UpperCh[i] = c

IsDigit(c) == \E i \in 1..10 : DigitCh[i] = c

IsLetter(c) == IsLower(c) \/ IsUpper(c)

IsAlnum(c) == IsLetter(c) \/ IsDigit(c)

\* strings.ToLower / strings.ToUpper on one character
ToLowerCh(c) == IF IsUpper(c) THEN LowerCh[CHOOSE i \in 1..26 : UpperCh[i] = c] ELSE c

ToUpperCh(c) == IF IsLower(c) THEN UpperCh[CHOOSE i \in 1..26 : LowerCh[i] = c] ELSE c

ToLower(s) == [i \in 1..Len(s) |-> ToLowerCh(s[i])]

ToUpper(s) == [i \in 1..Len(s) |-> ToUpperCh(s[i])]

\* strings.TrimSpace
RECURSIVE TrimLeft(_)
TrimLeft(s) == IF s # <<>> /\ Head(s) = " " THEN TrimLeft(Tail(s)) ELSE s

RECURSIVE TrimRight(_)
TrimRight(s) ==
    IF s # <<>> /\ s[Len(s)] = " " THEN TrimRight(SubSeq(s, 1, Len(s) - 1)) ELSE s

TrimSpace(s) == TrimRight(TrimLeft(s))

\* ------------------------------------------------------------------------
\* lo.KebabCase as called by initializeRecursive: lo.Words splits the
\* string with two regular-expression rewrites, turns every character that
\* is neither letter nor digit into a blank and takes the blank-separated
\* fields; KebabCase lower-cases the words and joins them with "-".
\* ------------------------------------------------------------------------

\* splitWordReg.ReplaceAllString(str, "$1$3$5$7 $2$4$6$8$9") with
\*   ([a-z])([A-Z0-9]) | ([a-zA-Z])([0-9]) | ([0-9])([a-zA-Z]) | ([A-Z])([A-Z])([a-z])
\* leftmost match first, alternatives in order, matches do not overlap.
RECURSIVE SplitWord(_)
SplitWord(s) ==
    IF Len(s) < 2 THEN s
    ELSE LET a == s[1]
             b == s[2]
             pair == \/ (IsLower(a) /\ (IsUpper(b) \/ IsDigit(b)))
                     \/ (IsLetter(a) /\ IsDigit(b))
                     \/ (IsDigit(a) /\ IsLetter(b))
             triple == Len(s) >= 3 /\ IsUpper(a) /\ IsUpper(b) /\ IsLower(s[3])
         IN  IF pair THEN <<a, " ", b>> \o SplitWord(SubSeq(s, 3, Len(s)))
             ELSE IF triple THEN <<a, " ", b, s[3]>> \o SplitWord(SubSeq(s, 4, Len(s)))
             ELSE <<a>> \o SplitWord(Tail(s))

\* splitNumberLetterReg.ReplaceAllString(str, "$1 $2") with ([0-9])([a-zA-Z])
RECURSIVE SplitNumberLetter(_)
SplitNumberLetter(s) ==
    IF Len(s) < 2 THEN s
    ELSE IF IsDigit(s[1]) /\ IsLetter(s[2])
         THEN <<s[1], " ", s[2]>> \o SplitNumberLetter(SubSeq(s, 3, Len(s)))
         ELSE <<s[1]>> \o SplitNumberLetter(Tail(s))

\* strings.Fields after every non-alphanumeric character became a blank:
\* sequence of the maximal alphanumeric runs
RECURSIVE Fields(_, _)
Fields(s, cur) ==
    IF s = <<>> THEN (IF cur = <<>> THEN <<>> ELSE <<cur>>)
    ELSE IF IsAlnum(Head(s)) THEN Fields(Tail(s), Append(cur, Head(s)))
    ELSE (IF cur = <<>> THEN <<>> ELSE <<cur>>) \o Fields(Tail(s), <<>>)

Words(s) == Fields(SplitNumberLetter(SplitWord(s)), <<>>)

\* strings.Join
RECURSIVE Join(_, _)
Join(ws, sep) ==
    IF ws = <<>> THEN <<>>
    ELSE IF Len(ws) = 1 THEN ws[1]
    ELSE ws[1] \o sep \o Join(Tail(ws), sep)

KebabCase(s) == Join([i \in 1..Len(Words(s)) |-> ToLower(Words(s)[i])], <<"-">>)

\* The fix-up as a rewrite that does nothing (a mutation of the next definition)
KebabFixNone(s) == s

\* reKebabCaseFixDigital.ReplaceAllString(s, "${1}") with -(\d+):
\* every "-" directly followed by a digit is dropped
RECURSIVE KebabFixDigital(_)
KebabFixDigital(s) ==
    IF s = <<>> THEN <<>>
    ELSE IF Head(s) = "-" /\ Len(s) >= 2 /\ IsDigit(s[2])
         THEN KebabFixDigital(Tail(s))
         ELSE <<Head(s)>> \o KebabFixDigital(Tail(s))

\* flagKey := reKebabCaseFixDigital.ReplaceAllString(lo.KebabCase(viperKey), "${1}")
FlagKeyOf(viperKey) == KebabFixDigital(KebabCase(viperKey))

\* envReplacer.Replace: "." and "-" become "_"
EnvReplace(s) == [i \in 1..Len(s) |-> IF s[i] \in {".", "-"} THEN "_" ELSE s[i]]

\* the environment identifier without the prefix (a mutation of EnvKeyOf)
EnvKeyNoPrefix(envPrefix, flagKey) == EnvReplace(ToUpper(flagKey))

\* envKey := opts.envPrefix + envReplacer.Replace(strings.ToUpper(flagKey))
EnvKeyOf(envPrefix, flagKey) == envPrefix \o EnvReplace(ToUpper(flagKey))


\* ------------------------------------------------------------------------
\* Go types (reflect.Type) and struct fields
\* ------------------------------------------------------------------------
NoType == <<>>

\* a type: reflect kind, type name for the named types the code compares
\* against (typeDuration, typeTime), pointer depth, element and key types of
\* slices and maps, fields of structs
Ty(kind) == [kind |-> kind, name |-> "", ptr |-> 0, elem |-> NoType, key |-> NoType, fields |-> <<>>]

TyInt == Ty("int")

TyString == Ty("string")

TyDuration == [Ty("int64") EXCEPT !.name = "time.Duration"]

TyTime == [Ty("struct") EXCEPT !.name = "time.Time"]

PtrTo(t) == [t EXCEPT !.ptr = @ + 1]

SliceOf(e) == [Ty("slice") EXCEPT !.elem = e]

MapOf(k, e) == [Ty("map") EXCEPT !.key = k, !.elem = e]

StructOf(fs) == [Ty("struct") EXCEPT !.fields = fs]

\* reflect.StructField: name, value of the configured tag, usage tag,
\* validate tag (the rules declared on the field, in order), type
Fld(n, tag, t) == [name |-> n, tag |-> tag, usage |-> <<>>, validate |-> <<>>, typ |-> t]

\* t.Elem() of a pointer type
Deref(t) == [t EXCEPT !.ptr = @ - 1]

\* unwrapType: strip every pointer layer
unwrapType(t) == [t EXCEPT !.ptr = 0]

\* ast.IsExported(field.Name)
IsExported(n) == n # <<>> /\ IsUpper(n[1])

\* ------------------------------------------------------------------------
\* Go values and the heap.  A value of a pointer type is an address (0 is
\* nil) into the heap, a sequence of cells; a struct value is the sequence
\* of its field values; an integer is itself; values of the other kinds
\* are not inspected by the walker and are represented by 0.
\* ------------------------------------------------------------------------
RECURSIVE Zero(_)
Zero(t) ==
    IF t.ptr > 0 THEN 0
    ELSE IF t.kind = "struct" /\ t.name = ""
         THEN [i \in 1..Len(t.fields) |-> Zero(t.fields[i].typ)]
    ELSE 0

\* a copy that shares every cell with the original (a mutation of Slowly)
SlowlyShallow(h, t, v) == [heap |-> h, v |-> v]

\* clone.Slowly: deep copy of value v of type t, every reachable cell is
\* copied into a fresh cell.  Yields the new heap and the copy.
RECURSIVE Slowly(_, _, _)
RECURSIVE SlowlyFields(_, _, _, _)
Slowly(h, t, v) ==
    IF t.ptr > 0
    THEN IF v = 0 THEN [heap |-> h, v |-> 0]
         ELSE LET r == Slowly(h, Deref(t), h[v])
                  h2 == Append(r.heap, r.v)
              IN  [heap |-> h2, v |-> Len(h2)]
    ELSE IF t.kind = "struct" /\ t.name = ""
         THEN SlowlyFields(h, t, v, 1)
    ELSE [heap |-> h, v |-> v]

SlowlyFields(h, t, v, i) ==
    IF i > Len(t.fields) THEN [heap |-> h, v |-> v]
    ELSE LET r == Slowly(h, t.fields[i].typ, v[i])
         IN  SlowlyFields(r.heap, t, [v EXCEPT ![i] = r.v], i + 1)

\* the addresses reachable from value v of type t
RECURSIVE Reach(_, _, _)
Reach(h, t, v) ==
    IF t.ptr > 0
    THEN IF v = 0 THEN {} ELSE {v} \cup Reach(h, Deref(t), h[v])
    ELSE IF t.kind = "struct" /\ t.name = ""
         THEN UNION {Reach(h, t.fields[i].typ, v[i]) : i \in 1..Len(t.fields)}
    ELSE {}

\* unwrapOrNew: follow the pointer layers of v; a nil layer gets a new
\* zero-valued instance (reflect.New), which is not stored back into the
\* value it was read from.  Yields the new heap and the concrete value.
RECURSIVE unwrapOrNew(_, _, _)
unwrapOrNew(h, t, v) ==
    IF t.ptr = 0 THEN [heap |-> h, v |-> v]
    ELSE IF v = 0
         THEN LET h2 == Append(h, Zero(Deref(t)))
              IN  unwrapOrNew(h2, Deref(t), h2[Len(h2)])
         ELSE unwrapOrNew(h, Deref(t), h[v])

\* ------------------------------------------------------------------------
\* Errors, flags, deferred binds, options
\* ------------------------------------------------------------------------
\* an error: what it reports, the type it names and the key it names
Err(kind, t, key) == [kind |-> kind, typ |-> t, key |-> key]

NoErr == Err("", NoType, <<>>)

IsErr(e) == e.kind # ""

\* the Field handed to the hook
Field(viperKey, flagKey, envKey, usage) ==
    [ViperKey |-> viperKey, FlagKey |-> flagKey, EnvKey |-> envKey, Usage |-> usage]

\* a pflag.Flag: name, shorthand, value type, default, current value, Changed
Flag(name, short, ftype, def, usage) ==
    [name |-> name, short |-> short, ftype |-> ftype, def |-> def, value |-> def,
     changed |-> FALSE, usage |-> usage]

\* flagSet.Lookup: index of the flag of that name, 0 for nil
Lookup(flags, name) ==
    IF \E i \in 1..Len(flags) : flags[i].name = name
    THEN CHOOSE i \in 1..Len(flags) : flags[i].name = name
    ELSE 0

cConfig == <<"c","o","n","f","i","g">>

\* the environment identifier the renaming hook of TestWithFieldHook installs
HookEnvKey == <<"A","_","H","T","T","P">>

\* what a hook that rewrites all four items returns for its key: the path
\* in another case, a flag identifier, the environment identifier, a usage
HookField == Field(<<"P","o","r","t">>, <<"h","t","t","p">>, HookEnvKey, <<"u">>)

\* a walk that drops what the hook returns (a mutation of fieldHook)
fieldHookDropped(hook, f) ==
    IF hook.mode = "fail" /\ f.ViperKey = hook.key
    THEN [err |-> Err("hook error", NoType, f.ViperKey), f |-> f]
    ELSE [err |-> NoErr, f |-> f]

\* opts.fieldHook: nil ("none"), a hook that replaces the environment
\* identifier of one key ("env"), a hook that replaces all four items of one
\* key ("all"), a hook that fails on one key ("fail")
fieldHook(hook, f) ==
    IF hook.mode = "fail" /\ f.ViperKey = hook.key
    THEN [err |-> Err("hook error", NoType, f.ViperKey), f |-> f]
    ELSE IF hook.mode = "env" /\ f.ViperKey = hook.key
    THEN [err |-> NoErr, f |-> [f EXCEPT !.EnvKey = HookEnvKey]]
    ELSE IF hook.mode = "all" /\ f.ViperKey = hook.key
    THEN [err |-> NoErr, f |-> HookField]
    ELSE [err |-> NoErr, f |-> f]

SliceFlagType ==
    [bool |-> "boolSlice", float32 |-> "float32Slice", float64 |-> "float64Slice",
     int |-> "intSlice", int32 |-> "int32Slice", string |-> "stringSlice"]

\* flagSetSlice: the flag type registered for a slice, or the error
flagSetSlice(t, flagKey) ==
    LET elemType == t.elem
        k == IF elemType.ptr > 0 THEN "ptr" ELSE elemType.kind
    IN  IF k \in {"bool", "float32", "float64", "int", "int32", "string"}
        THEN [err |-> NoErr, ftype |-> SliceFlagType[k]]
        ELSE IF k = "int64"
        THEN [err |-> NoErr,
              ftype |-> IF elemType = TyDuration THEN "durationSlice" ELSE "int64Slice"]
        ELSE IF k \in {"uint", "uint32", "uint64", "uint8"}
        THEN [err |-> NoErr,
              ftype |-> IF t = SliceOf(Ty("uint8")) THEN "bytesBase64" ELSE "uintSlice"]
        ELSE IF k = "struct"
        THEN [err |-> NoErr, ftype |-> "string"]
        ELSE [err |-> Err("unsupported slice element type", elemType, flagKey), ftype |-> ""]

\* flagSetMap without the check of the key type (a mutation of flagSetMap)
flagSetMapAnyKey(t, flagKey) ==
    LET elemType == t.elem
        ek == IF elemType.ptr > 0 THEN "ptr" ELSE elemType.kind
    IN  IF ek = "int" THEN [err |-> NoErr, ftype |-> "stringToInt"]
        ELSE IF ek = "int64" THEN [err |-> NoErr, ftype |-> "stringToInt64"]
        ELSE IF ek = "string" THEN [err |-> NoErr, ftype |-> "stringToString"]
        ELSE [err |-> Err("unsupported map value type", elemType, flagKey), ftype |-> ""]

\* flagSetMap: the flag type registered for a map, or the error
flagSetMap(t, flagKey) ==
    LET keyType == t.key
        elemType == t.elem
        kk == IF keyType.ptr > 0 THEN "ptr" ELSE keyType.kind
        ek == IF elemType.ptr > 0 THEN "ptr" ELSE elemType.kind
    IN  IF kk # "string"
        THEN [err |-> Err("only string keys are supported for map type", keyType, flagKey),
              ftype |-> ""]
        ELSE IF ek = "int" THEN [err |-> NoErr, ftype |-> "stringToInt"]
        ELSE IF ek = "int64" THEN [err |-> NoErr, ftype |-> "stringToInt64"]
        ELSE IF ek = "string" THEN [err |-> NoErr, ftype |-> "stringToString"]
        ELSE [err |-> Err("unsupported map value type", elemType, flagKey), ftype |-> ""]

ScalarKinds ==
    {"bool", "float32", "float64", "int", "int8", "int16", "int32", "int64",
     "string", "uint", "uint8", "uint16", "uint32", "uint64"}

\* the switch on fieldType.Kind() for every kind but a plain nested struct:
\* the flag type to register, or the error
FlagTypeFor(fieldType, f) ==
    IF fieldType.kind \in ScalarKinds
    THEN [err |-> NoErr,
          ftype |-> IF fieldType = TyDuration THEN "duration" ELSE fieldType.kind]
    ELSE IF fieldType.kind = "slice" THEN flagSetSlice(fieldType, f.FlagKey)
    ELSE IF fieldType.kind = "map" THEN flagSetMap(fieldType, f.FlagKey)
    ELSE IF fieldType = TyTime THEN [err |-> NoErr, ftype |-> "string"]
    ELSE [err |-> Err("unsupported field type", fieldType, f.ViperKey), ftype |-> ""]

\* registering a flag; pflag panics when the name is already defined
AddFlag(acc, fieldType, fieldValue, f) ==
    LET r == FlagTypeFor(fieldType, f)
    IN  IF IsErr(r.err) THEN [acc EXCEPT !.err = r.err]
        ELSE IF Lookup(acc.flags, f.FlagKey) # 0
        THEN [acc EXCEPT !.err = Err("panic: flag redefined", NoType, f.FlagKey)]
        ELSE [acc EXCEPT
                !.flags = Append(@, Flag(f.FlagKey, <<>>, r.ftype, fieldValue, f.Usage)),
                !.binds = @ \o << [op |-> "BindPFlag", key |-> f.ViperKey, name |-> f.FlagKey],
                                  [op |-> "BindEnv", key |-> f.ViperKey, name |-> f.EnvKey] >>]

cSquash == <<",","s","q","u","a","s","h">>

\* tag := strings.TrimSpace(field.Tag.Get(opts.tagName)); if tag == "" { tag = field.Name }
FieldTag(field) == IF TrimSpace(field.tag) = <<>> THEN field.name ELSE TrimSpace(field.tag)

\* if tag == "-" { continue }
IsIgnoredTag(tag) == tag = <<"-">>

\* a squashed field that adds its tag as a segment (a mutation of SquashKey)
SquashKeyNested(parentKey, tag) ==
    IF parentKey # <<>> THEN parentKey \o <<".">> \o tag ELSE tag

\* the parent key handed to the walk of a squashed field
SquashKey(parentKey, tag) == parentKey

\* viperKey, flagKey, envKey and usage derived for a field
DeriveField(opts, field, parentKey) ==
    LET tag == FieldTag(field)
        viperKey == IF parentKey # <<>> THEN parentKey \o <<".">> \o tag ELSE tag
        flagKey == FlagKeyOf(viperKey)
        envKey == EnvKeyOf(opts.envPrefix, flagKey)
        usage == IF TrimSpace(field.usage) = <<>> THEN viperKey ELSE TrimSpace(field.usage)
    IN  Field(viperKey, flagKey, envKey, usage)

\* initializeRecursive.  acc carries the error, the flags registered in
\* opts.flagSet so far, the collected binds and the heap.
RECURSIVE initializeRecursive(_, _, _, _, _)
RECURSIVE WalkFields(_, _, _, _, _, _)
initializeRecursive(opts, acc, t, v, parentKey) ==
    LET u == unwrapOrNew(acc.heap, t, v)
        vt == unwrapType(t)
        acc1 == [acc EXCEPT !.heap = u.heap]
    IN  IF vt.kind # "struct"
        THEN [acc1 EXCEPT !.err = Err("unsupported type", vt, <<>>)]
        ELSE WalkFields(opts, acc1, vt, u.v, parentKey, 1)

\* the loop over the fields of struct value sv of type st, from field i on
WalkFields(opts, acc, st, sv, parentKey, i) ==
    IF IsErr(acc.err) \/ i > Len(st.fields) THEN acc
    ELSE
    LET field == st.fields[i]
    IN  IF ~IsExported(field.name) THEN WalkFields(opts, acc, st, sv, parentKey, i + 1)
        ELSE
        LET fieldType == unwrapType(field.typ)
            u == unwrapOrNew(acc.heap, field.typ, sv[i])
            fieldValue == u.v
            acc1 == [acc EXCEPT !.heap = u.heap]
            tag == FieldTag(field)
            d == DeriveField(opts, field, parentKey)
            hk == IF opts.hook.mode # "none" THEN fieldHook(opts.hook, d)
                  ELSE [err |-> NoErr, f |-> d]
            f == hk.f
        IN  IF IsIgnoredTag(tag) THEN WalkFields(opts, acc1, st, sv, parentKey, i + 1)
            ELSE IF tag = cSquash
            THEN IF fieldType.kind # "struct" \/ fieldType = TyTime
                 THEN [acc1 EXCEPT !.err = Err("unsupported squash type", fieldType, <<>>)]
                 ELSE WalkFields(opts,
                                 initializeRecursive(opts, acc1, fieldType, fieldValue,
                                                     SquashKey(parentKey, tag)),
                                 st, sv, parentKey, i + 1)
            ELSE IF IsErr(hk.err) THEN [acc1 EXCEPT !.err = hk.err]
            ELSE IF fieldType.kind = "struct" /\ fieldType # TyTime
            THEN WalkFields(opts,
                            initializeRecursive(opts, acc1, fieldType, fieldValue, f.ViperKey),
                            st, sv, parentKey, i + 1)
            ELSE WalkFields(opts, AddFlag(acc1, fieldType, fieldValue, f),
                            st, sv, parentKey, i + 1)

\* ------------------------------------------------------------------------
\* pflag: parsing the argument list
\* ------------------------------------------------------------------------
\* strconv.ParseInt on a decimal string: the number, or -1 for an error
RECURSIVE ParseDigits(_, _)
ParseDigits(s, n) ==
    IF s = <<>> THEN n
    ELSE ParseDigits(Tail(s), 10 * n + ((CHOOSE i \in 1..10 : DigitCh[i] = Head(s)) - 1))

ParseInt(s) ==
    IF s # <<>> /\ \A i \in 1..Len(s) : IsDigit(s[i]) THEN ParseDigits(s, 0) ELSE -1

IntFlagTypes == {"int", "int8", "int16", "int32", "int64"}

\* flag.Value.Set: the stored value, or the error
FlagSetValue(flag, val) ==
    IF flag.ftype \in IntFlagTypes
    THEN IF ParseInt(val) < 0
         THEN [err |-> Err("invalid argument", NoType, flag.name), value |-> flag.value]
         ELSE [err |-> NoErr, value |-> ParseInt(val)]
    ELSE [err |-> NoErr, value |-> val]

\* FlagSet.Parse: the arguments are handled in order, an unknown flag or an
\* unparsable value stops the parse with an error, the flags set before the
\* error keep their values; Parsed() is true from the start of the call on.
RECURSIVE ParseArgs(_, _)
ParseArgs(flags, args) ==
    IF args = <<>> THEN [flags |-> flags, err |-> NoErr]
    ELSE LET a == Head(args)
             i == Lookup(flags, a.name)
         IN  IF i = 0
             THEN [flags |-> flags, err |-> Err("unknown flag", NoType, a.name)]
             ELSE LET r == FlagSetValue(flags[i], a.val)
                  IN  IF IsErr(r.err) THEN [flags |-> flags, err |-> r.err]
                      ELSE ParseArgs([flags EXCEPT ![i].value = r.value,
                                                   ![i].changed = TRUE],
                                     Tail(args))

\* ------------------------------------------------------------------------
\* viper: the store.  Maps are sets of <<key, value>> pairs; keys are
\* lower-cased by viper on every access.
\* ------------------------------------------------------------------------
MapHas(m, k) == \E e \in m : e[1] = k

MapGet(m, k) == (CHOOSE e \in m : e[1] = k)[2]

MapPut(m, k, x) == {e \in m : e[1] # k} \cup {<<k, x>>}

MapKeys(m) == {e[1] : e \in m}

NoValue == [kind |-> "none", v |-> 0]

IntValue(n) == [kind |-> "int", v |-> n]

StrValue(s) == [kind |-> "string", v |-> s]

\* the default of the flag in place of its value (a mutation of FlagValue)
FlagValueDefault(flag) ==
    IF flag.ftype \in IntFlagTypes THEN IntValue(flag.def) ELSE StrValue(flag.def)

\* the typed value viper reads from a flag (cast of flag.ValueString())
FlagValue(flag) ==
    IF flag.ftype \in IntFlagTypes THEN IntValue(flag.value) ELSE StrValue(flag.value)

\* viper.find: a bound flag that was changed, else the first bound
\* environment variable that is set and not empty, else the value in the
\* configuration read last, else the default of the bound flag
Find(v, flags, environ, key) ==
    LET fi == IF MapHas(v.pflags, key) THEN Lookup(flags, MapGet(v.pflags, key)) ELSE 0
    IN  IF fi # 0 /\ flags[fi].changed THEN FlagValue(flags[fi])
        ELSE IF MapHas(v.env, key) /\ MapHas(environ, MapGet(v.env, key))
                /\ MapGet(environ, MapGet(v.env, key)) # <<>>
        THEN StrValue(MapGet(environ, MapGet(v.env, key)))
        ELSE IF MapHas(v.config, key) THEN MapGet(v.config, key)
        ELSE IF fi # 0 THEN FlagValue(flags[fi])
        ELSE NoValue

\* viper.AllSettings: every key of the bound flags, the bound environment
\* variables and the configuration that has a value
AllSettings(v, flags, environ) ==
    LET keys == MapKeys(v.pflags) \cup MapKeys(v.env) \cup MapKeys(v.config)
    IN  {<<k, Find(v, flags, environ, k)>> : k \in {x \in keys : Find(v, flags, environ, x).kind # "none"}}

\* ------------------------------------------------------------------------
\* Unmarshal: mapstructure decoding of the settings into a fresh value of
\* the configuration type.  In a decoded value a nil pointer is <<>> and a
\* set pointer is <<target>>.
\* ------------------------------------------------------------------------
RECURSIVE ZeroConf(_)
ZeroConf(t) ==
    IF t.ptr > 0 THEN <<>>
    ELSE IF t.kind = "struct" /\ t.name = ""
         THEN [i \in 1..Len(t.fields) |-> ZeroConf(t.fields[i].typ)]
    ELSE 0

IsPrefix(p, k) == Len(p) <= Len(k) /\ SubSeq(k, 1, Len(p)) = p

\* the settings hold a value for key or for a key nested below it
Present(settings, key) ==
    \E e \in settings : e[1] = key \/ IsPrefix(key \o <<".">>, e[1])

\* the part of a tag before the first comma
RECURSIVE TagName(_)
TagName(tag) ==
    IF tag = <<>> \/ Head(tag) = "," THEN <<>> ELSE <<Head(tag)>> \o TagName(Tail(tag))

\* the options of a tag after the first comma contain "squash"
RECURSIVE TagSquash(_)
TagSquash(tag) ==
    IF tag = <<>> THEN FALSE
    ELSE IF Head(tag) = "," THEN Tail(tag) = Tail(cSquash)
    ELSE TagSquash(Tail(tag))

\* the key mapstructure looks up for a field: tag name or field name,
\* matched case-insensitively against the lower-case keys of the settings
DecodeKey(prefix, field) ==
    LET n == IF TagName(field.tag) # <<>> THEN TagName(field.tag) ELSE field.name
    IN  ToLower(IF prefix = <<>> THEN n ELSE prefix \o <<".">> \o n)

\* decoding an integer with weakly typed input: a string is parsed
DecodeInt(val) ==
    IF val.kind = "int" THEN [v |-> val.v, bad |-> FALSE]
    ELSE IF val.v = <<>> THEN [v |-> 0, bad |-> FALSE]
    ELSE IF ParseInt(val.v) < 0 THEN [v |-> 0, bad |-> TRUE]
    ELSE [v |-> ParseInt(val.v), bad |-> FALSE]

\* the decoded value of type t for key, and the keys that failed to decode
RECURSIVE Decode(_, _, _)
RECURSIVE DecodeStruct(_, _, _)
Decode(t, settings, key) ==
    IF ~Present(settings, key) THEN [v |-> ZeroConf(t), bad |-> {}]
    ELSE IF t.ptr > 0
    THEN LET r == Decode(Deref(t), settings, key) IN [v |-> <<r.v>>, bad |-> r.bad]
    ELSE IF t.kind = "struct" /\ t.name = "" THEN DecodeStruct(t, settings, key)
    ELSE IF t.kind \in IntFlagTypes /\ MapHas(settings, key)
    THEN LET r == DecodeInt(MapGet(settings, key))
         IN  [v |-> r.v, bad |-> IF r.bad THEN {key} ELSE {}]
    ELSE [v |-> ZeroConf(t), bad |-> {}]

DecodeField(field, settings, prefix) ==
    IF ~IsExported(field.name) \/ TagName(field.tag) = <<"-">>
    THEN [v |-> ZeroConf(field.typ), bad |-> {}]
    ELSE IF TagSquash(field.tag) /\ field.typ.ptr = 0 /\ field.typ.kind = "struct"
    THEN DecodeStruct(field.typ, settings, prefix)
    ELSE Decode(field.typ, settings, DecodeKey(prefix, field))

DecodeStruct(t, settings, prefix) ==
    [v |-> [i \in 1..Len(t.fields) |-> DecodeField(t.fields[i], settings, prefix).v],
     bad |-> UNION {DecodeField(t.fields[i], settings, prefix).bad : i \in 1..Len(t.fields)}]

\* viper.Unmarshal(&conf, ...)
Unmarshal(t, v, flags, environ) == DecodeStruct(t, AllSettings(v, flags, environ), <<>>)

\* ------------------------------------------------------------------------
\* Validation.  The validate tag of a field is the sequence of its rules;
\* the engine evaluates the rules of a field in order, records the first
\* that fails and leaves the field, and walks into a nested struct only
\* after every rule of the field has passed.  A failure is <<path, rule>>.
\* ------------------------------------------------------------------------
skipNestedUnlessTag == "skip_nested_unless"

Rule(tag, param) == [tag |-> tag, param |-> param]

\* reSplitParams.FindAllString(s, -1) with '[^']*'|\S+ : a quoted group when
\* the quote at hand has a closing quote, else the run of non-blank
\* characters; blanks between matches are skipped
RECURSIVE FindAllString(_)
FindAllString(s) ==
    IF s = <<>> THEN <<>>
    ELSE IF Head(s) = " " THEN FindAllString(Tail(s))
    ELSE IF Head(s) = "'" /\ \E i \in 2..Len(s) : s[i] = "'"
    THEN LET j == CHOOSE i \in 2..Len(s) : s[i] = "'" /\ \A k \in 2..(i - 1) : s[k] # "'"
         IN  <<SubSeq(s, 1, j)>> \o FindAllString(SubSeq(s, j + 1, Len(s)))
    ELSE LET n == CHOOSE i \in 1..Len(s) :
                      /\ \A k \in 1..i : s[k] # " "
                      /\ i = Len(s) \/ s[i + 1] = " "
         IN  <<SubSeq(s, 1, n)>> \o FindAllString(SubSeq(s, n + 1, Len(s)))

\* parseOneOfParam2: the matches with every quote removed
parseOneOfParam2(s) ==
    LET vals == FindAllString(s)
    IN  [i \in 1..Len(vals) |-> SelectSeq(vals[i], LAMBDA c : c # "'")]

\* cast.ToInt64 of a string: 0 when it is not a number
ToInt64(value) == IF ParseInt(value) < 0 THEN 0 ELSE ParseInt(value)

\* current.FieldByName(param): index of the field, 0 when there is none
FieldByName(t, n) ==
    IF \E i \in 1..Len(t.fields) : t.fields[i].name = n
    THEN CHOOSE i \in 1..Len(t.fields) : t.fields[i].name = n
    ELSE 0

\* cast.ToUint64 of a string: 0 when it is not a number
ToUint64(value) == ToInt64(value)

\* the digits after the point without the zeros at their end
RECURSIVE DropZeros(_)
DropZeros(d) ==
    IF d # <<>> /\ d[Len(d)] = "0" THEN DropZeros(SubSeq(d, 1, Len(d) - 1)) ELSE d

\* a float of the model: the integer part and the digits after the point
Float(int, frac) == <<int, DropZeros(frac)>>

\* cast.ToFloat64 of a string, for decimal literals: 0 when it is not a
\* number
ToFloat64(value) ==
    LET dots == {i \in 1..Len(value) : value[i] = "."}
        i == IF dots = {} THEN Len(value) + 1
             ELSE CHOOSE k \in dots : \A j \in dots : k <= j
        int == SubSeq(value, 1, i - 1)
        frac == SubSeq(value, i + 1, Len(value))
    IN  IF /\ int \o frac # <<>>
           /\ \A k \in 1..Len(int) : IsDigit(int[k])
           /\ \A k \in 1..Len(frac) : IsDigit(frac[k])
        THEN Float(IF int = <<>> THEN 0 ELSE ParseDigits(int, 0), frac)
        ELSE Float(0, <<>>)

UintKinds == {"uint", "uint8", "uint16", "uint32", "uint64", "uintptr"}

cNil == <<"n","i","l">>

cTrue == <<"t","r","u","e">>

\* a field taken as it is: the kind of a pointer that is set is ptr (a
\* mutation of ExtractType)
ExtractTypeShallow(t, v) == [kind |-> IF t.ptr > 0 THEN "ptr" ELSE t.kind, v |-> v]

\* the field and the kind GetStructFieldOKAdvanced2 hands back for a
\* resolved sibling of type t and value v: a pointer that is set is followed
\* to what it points to, the kind is ptr for a pointer that is nil only
RECURSIVE ExtractType(_, _)
ExtractType(t, v) ==
    IF t.ptr > 0
    THEN IF v = <<>> THEN [kind |-> "ptr", v |-> v] ELSE ExtractType(Deref(t), v[1])
    ELSE [kind |-> t.kind, v |-> v]

\* field.String(): the string itself, "<T Value>" for what is no string
FieldString(kind, field) == IF kind = "string" THEN field ELSE <<"<", kind, " Value>">>

\* the switch reaches the call of requireCheckFieldValue with the arguments
\* it was called with, which does not return
FieldValueRecurses(kind, field) == kind = "ptr" /\ field # <<>>

\* the switch on kind: the comparison of the field with the expected value
FieldValueIs(kind, field, value) ==
    IF kind \in IntFlagTypes THEN field = ToInt64(value)
    ELSE IF kind \in UintKinds THEN field = ToUint64(value)
    ELSE IF kind \in {"float32", "float64"} THEN field = ToFloat64(value)
    ELSE IF kind \in {"slice", "array"} THEN Len(field) = ToInt64(value)
    ELSE IF kind = "map" THEN Cardinality(field) = ToInt64(value)
    ELSE IF kind = "bool" THEN field = (value = cTrue)
    ELSE IF kind = "ptr" THEN field = <<>> /\ value = cNil
    ELSE FieldString(kind, field) = value

\* a sibling that does not resolve counted as met (a mutation of
\* requireCheckFieldValue)
requireCheckFieldValueLax(pt, pv, param, value, defaultNotFoundValue) ==
    LET i == FieldByName(pt, param)
    IN  IF i = 0 THEN TRUE
        ELSE LET e == ExtractType(pt.fields[i].typ, pv[i])
             IN  FieldValueIs(e.kind, e.v, value)

\* requireCheckFieldValue: the sibling param, resolved on the parent struct
\* (type pt, value pv), has the value
requireCheckFieldValue(pt, pv, param, value, defaultNotFoundValue) ==
    LET i == FieldByName(pt, param)
    IN  IF i = 0 THEN defaultNotFoundValue
        ELSE LET e == ExtractType(pt.fields[i].typ, pv[i])
             IN  FieldValueIs(e.kind, e.v, value)

\* requireCheckFieldValue returns
requireCheckFieldValueReturns(pt, pv, param) ==
    LET i == FieldByName(pt, param)
    IN  i = 0 \/ LET e == ExtractType(pt.fields[i].typ, pv[i])
                 IN  ~FieldValueRecurses(e.kind, e.v)

\* skipNestedUnlessImpl without the check of the number of parameters (a
\* mutation of skipNestedUnlessImpl): a last parameter without value is unmet
skipNestedUnlessNoPanic(pt, pv, param) ==
    LET params == parseOneOfParam2(param)
    IN  [panic |-> FALSE,
         ok |-> /\ Len(params) % 2 = 0
                /\ \A k \in 1..(Len(params) \div 2) :
                       requireCheckFieldValue(pt, pv, params[2 * k - 1], params[2 * k], FALSE)]

\* skipNestedUnlessImpl: panic on an odd number of parameters, else whether
\* every pair is met
skipNestedUnlessImpl(pt, pv, param) ==
    LET params == parseOneOfParam2(param)
    IN  IF Len(params) % 2 # 0 THEN [panic |-> TRUE, ok |-> FALSE]
        ELSE [panic |-> FALSE,
              ok |-> \A k \in 1..(Len(params) \div 2) :
                         requireCheckFieldValue(pt, pv, params[2 * k - 1], params[2 * k], FALSE)]

\* what validating a part yields: the failures, and the field whose rule
\* panicked (<<>> when none did)
VResult(errs, panic) == [errs |-> errs, panic |-> panic]

RECURSIVE ZeroOf(_)
ZeroOf(t) ==
    IF t.ptr > 0 THEN <<>>
    ELSE IF t.kind = "struct" /\ t.name = ""
         THEN [i \in 1..Len(t.fields) |-> ZeroOf(t.fields[i].typ)]
    ELSE IF t.kind = "string" THEN <<>>
    ELSE 0

\* one rule of the base validator on a value of type t: required (a struct
\* is required to differ from its zero value), gte
RuleFails(rule, t, val) ==
    IF rule.tag = "required" THEN val = ZeroOf(t)
    ELSE IF rule.tag = "gte" THEN t.kind \in IntFlagTypes /\ val < ToInt64(rule.param)
    ELSE FALSE

RECURSIVE ValidateStruct(_, _, _)
RECURSIVE RunRules(_, _, _, _, _, _, _)
\* the rules of field fd from the k-th on, then the nested struct
RunRules(pt, pv, fd, t, val, ns, k) ==
    IF k > Len(fd.validate)
    THEN IF t.kind = "struct" /\ t.name = "" THEN ValidateStruct(t, val, ns)
         ELSE VResult(<<>>, <<>>)
    ELSE LET rule == fd.validate[k]
         IN  IF rule.tag = skipNestedUnlessTag
             THEN LET r == skipNestedUnlessImpl(pt, pv, rule.param)
                  IN  IF r.panic THEN VResult(<<>>, <<fd.name>>)
                      ELSE IF ~r.ok THEN VResult(<< <<ns, rule.tag>> >>, <<>>)
                      ELSE RunRules(pt, pv, fd, t, val, ns, k + 1)
             ELSE IF RuleFails(rule, t, val) THEN VResult(<< <<ns, rule.tag>> >>, <<>>)
             ELSE RunRules(pt, pv, fd, t, val, ns, k + 1)

\* a field: a nil pointer fails its first rule without evaluating it, a
\* set pointer is validated as what it points to
RECURSIVE ValidateValue(_, _, _, _, _, _)
ValidateValue(pt, pv, fd, t, val, ns) ==
    IF t.ptr > 0
    THEN IF val = <<>>
         THEN (IF fd.validate = <<>> THEN VResult(<<>>, <<>>)
               ELSE VResult(<< <<ns, fd.validate[1].tag>> >>, <<>>))
         ELSE ValidateValue(pt, pv, fd, Deref(t), val[1], ns)
    ELSE RunRules(pt, pv, fd, t, val, ns, 1)

RECURSIVE ValidateFields(_, _, _, _)
ValidateFields(t, val, ns, i) ==
    IF i > Len(t.fields) THEN VResult(<<>>, <<>>)
    ELSE LET fd == t.fields[i]
             here == IF ~IsExported(fd.name) THEN VResult(<<>>, <<>>)
                     ELSE ValidateValue(t, val, fd, fd.typ, val[i], ns \o <<".">> \o fd.name)
         IN  IF here.panic # <<>> THEN VResult(<<>>, here.panic)
             ELSE LET rest == ValidateFields(t, val, ns, i + 1)
                  IN  VResult(here.errs \o rest.errs, rest.panic)

ValidateStruct(t, val, ns) == ValidateFields(t, val, ns, 1)

\* what StructCtx yields: no error ("nil"), the aggregate list of the
\* failures ("errors"), an error that is no such list ("invalid": the value
\* is no struct), or a panic naming a field
NoError == [kind |-> "nil", errs |-> <<>>, field |-> <<>>]

\* validator.StructCtx of the base validator
BaseStructCtx(t, val) ==
    IF ~(t.ptr = 0 /\ t.kind = "struct" /\ t.name = "")
    THEN [NoError EXCEPT !.kind = "invalid"]
    ELSE LET r == ValidateStruct(t, val, <<>>)
         IN  IF r.panic # <<>> THEN [NoError EXCEPT !.kind = "panic", !.field = r.panic]
             ELSE IF r.errs = <<>> THEN NoError
             ELSE [NoError EXCEPT !.kind = "errors", !.errs = r.errs]

\* a wrapper that hands back an empty list when nothing remains (a mutation
\* of skipNestedUnlessWrapper)
skipNestedUnlessWrapperEmpty(res) ==
    IF res.kind # "errors" THEN res
    ELSE [res EXCEPT !.errs = SelectSeq(res.errs, LAMBDA e : e[2] # skipNestedUnlessTag)]

\* skipNestedUnlessWrapper: the failures of the skip rule itself are removed
\* from an aggregate list
skipNestedUnlessWrapper(res) ==
    IF res.kind # "errors" THEN res
    ELSE LET filtered == SelectSeq(res.errs, LAMBDA e : e[2] # skipNestedUnlessTag)
         IN  IF filtered = <<>> THEN NoError ELSE [res EXCEPT !.errs = filtered]

\* enhancedValidator.StructCtx(ctx, conf)
StructCtx(t, val) == skipNestedUnlessWrapper(BaseStructCtx(t, val))

\* ------------------------------------------------------------------------
\* The configurations handed to Initialize
\* ------------------------------------------------------------------------
cPort == <<"p","o","r","t">>

cHost == <<"h","o","s","t">>

cAuth == <<"a","u","t","h">>

cV2 == <<"v","2">>

cAuthV2 == cAuth \o <<".">> \o cV2

cMaxC == <<"M","a","x","C">>

cDash == <<"-">>

WithRules(f, rules) == [f EXCEPT !.validate = rules]

FPort == WithRules(Fld(<<"P","o","r","t">>, cPort, TyInt), << Rule("gte", <<"1">>) >>)

FMaxC == Fld(cMaxC, <<>>, TyInt)

\* struct { Host int `confx:"host"` }
BaseT == StructOf(<< Fld(<<"H","o","s","t">>, cHost, TyInt) >>)

\* struct { V2 **int `confx:"v2"` }
AuthT == StructOf(<< Fld(<<"V","2">>, cV2, PtrTo(PtrTo(TyInt))) >>)

\* struct { Port int `confx:"port" validate:"gte=1"`; Base BaseT `confx:",squash"`;
\*          Auth *AuthT `confx:"auth"`; Ign chan int `confx:"-"`; priv func() }
CfgT ==
    StructOf(<< FPort,
                Fld(<<"B","a","s","e">>, cSquash, BaseT),
                Fld(<<"A","u","t","h">>, cAuth, PtrTo(AuthT)),
                Fld(<<"I","g","n">>, cDash, Ty("chan")),
                Fld(<<"p","r","i","v">>, <<>>, Ty("func")) >>)

\* struct { Port int `confx:"port"`; Ign int `confx:"-" validate:"required"` }
CfgIgnT ==
    StructOf(<< FPort, WithRules(Fld(<<"I","g","n">>, cDash, TyInt), << Rule("required", <<>>) >>) >>)

cOpt == <<"o","p","t">>

\* struct { Ign int `confx:"-"` }
OptT == StructOf(<< Fld(<<"I","g","n">>, cDash, TyInt) >>)

\* struct { Port int `confx:"port" validate:"gte=1"`; Opt *OptT `confx:"opt"` }
CfgOptT == StructOf(<< FPort, Fld(<<"O","p","t">>, cOpt, PtrTo(OptT)) >>)

cS == <<"s">>

cSHost == cS \o <<".">> \o cHost

\* struct { Deep BaseT `confx:",squash"` }
SubT == StructOf(<< Fld(<<"D","e","e","p">>, cSquash, BaseT) >>)

\* struct { In BaseT `confx:",squash"`; Sub SubT `confx:"s"` }
OutT ==
    StructOf(<< Fld(<<"I","n">>, cSquash, BaseT), Fld(<<"S","u","b">>, cS, SubT) >>)

\* struct { Port int `confx:"port" validate:"gte=1"`; Out OutT `confx:",squash"` }
CfgSqT == StructOf(<< FPort, Fld(<<"O","u","t">>, cSquash, OutT) >>)

\* struct { MaxC int; <one field of type t tagged tag> }
BadT(n, tag, t) == StructOf(<< FMaxC, Fld(n, tag, t) >>)

cX == <<"X">>

cToFn == <<"t","o","F","n">>

\* configuration types on which Initialize fails
BadTypes ==
    << BadT(cX, <<"c","h">>, Ty("chan")),
       BadT(cX, <<"f","n">>, PtrTo(Ty("func"))),
       BadT(cX, <<"c","x">>, Ty("complex64")),
       BadT(cX, <<>>, Ty("interface")),
       BadT(cX, <<"a","r">>, Ty("array")),
       BadT(cX, cToFn, SliceOf(Ty("func"))),
       BadT(cX, cToFn, SliceOf(Ty("int8"))),
       BadT(cX, cToFn, MapOf(TyInt, TyString)),
       BadT(cX, cToFn, MapOf(TyString, Ty("func"))),
       BadT(cX, cSquash, TyInt),
       BadT(cX, cSquash, TyTime),
       BadT(cX, cAuth, StructOf(<< FPort, Fld(cX, cToFn, Ty("chan")) >>)),
       BadT(cX, cSquash, StructOf(<< FPort, Fld(cX, cToFn, Ty("func")) >>)),
       TyString >>

EnvPrefix == <<"A","_">>

NoHook == [mode |-> "none", key |-> <<>>]

\* a scenario: the configuration type, the caller's default value with the
\* heap cells it points to, and the options
Scenario(t, def, cells, custom, hook) ==
    [T |-> t, def |-> def, cells |-> cells,
     opts |-> [custom |-> custom, envPrefix |-> EnvPrefix, hook |-> hook]]

\* the defaults of CfgT: Auth unset, or Auth -> {V2 -> -> 1}
CfgDefNil == [def |-> <<1, <<1>>, 0, 0, 0>>, cells |-> <<>>]

CfgDefSet == [def |-> <<1, <<1>>, 1, 0, 0>>, cells |-> << <<2>>, 3, 1 >>]

EnvHook == [mode |-> "env", key |-> cPort]

AllHook == [mode |-> "all", key |-> cPort]

FailHook(k) == [mode |-> "fail", key |-> k]

\* the scenarios in which Initialize returns a loader
LoadScenarios ==
    << Scenario(CfgT, CfgDefNil.def, CfgDefNil.cells, TRUE, NoHook),
       Scenario(CfgT, CfgDefSet.def, CfgDefSet.cells, TRUE, NoHook),
       Scenario(CfgT, CfgDefNil.def, CfgDefNil.cells, FALSE, NoHook),
       Scenario(CfgT, CfgDefSet.def, CfgDefSet.cells, FALSE, NoHook),
       Scenario(CfgT, CfgDefSet.def, CfgDefSet.cells, TRUE, EnvHook),
       Scenario(CfgIgnT, <<1, 5>>, <<>>, TRUE, NoHook),
       Scenario(CfgSqT, <<1, << <<1>>, << <<1>> >> >> >>, <<>>, FALSE, NoHook),
       Scenario(CfgT, CfgDefNil.def, CfgDefNil.cells, FALSE, AllHook),
       Scenario(CfgOptT, <<1, 0>>, <<>>, TRUE, NoHook) >>

\* the scenarios in which Initialize fails
BadScenarios ==
    [i \in 1..Len(BadTypes) |-> Scenario(BadTypes[i], Zero(BadTypes[i]), <<>>, TRUE, NoHook)]
    \o [i \in 1..Len(BadTypes) |-> Scenario(BadTypes[i], Zero(BadTypes[i]), <<>>, FALSE, NoHook)]
    \o << Scenario(CfgT, CfgDefSet.def, CfgDefSet.cells, TRUE, FailHook(cHost)),
          Scenario(CfgT, CfgDefSet.def, CfgDefSet.cells, TRUE, FailHook(cAuth)),
          Scenario(CfgT, CfgDefNil.def, CfgDefNil.cells, FALSE, FailHook(cHost)) >>

Scenarios == LoadScenarios \o BadScenarios

\* ------------------------------------------------------------------------
\* The process environment: argument list, environment variables, files
\* ------------------------------------------------------------------------
Arg(n, val) == [name |-> n, val |-> val]

cAuthV2Flag == <<"a","u","t","h","-","v","2">>

PathA == <<"a">>

PathB == <<"b">>

PathMissing == <<"x">>

PathZero == <<"z">>

cEnvPort == EnvPrefix \o <<"P","O","R","T">>

cEnvHost == EnvPrefix \o <<"H","O","S","T">>

cEnvAuthV2 == EnvPrefix \o <<"A","U","T","H","_","V","2">>

cEnvSHost == EnvPrefix \o <<"S","_","H","O","S","T">>

\* the argument lists and environments of the runs
Environments ==
    << [args |-> <<>>, env |-> {}],
       [args |-> << Arg(cPort, <<"4">>) >>,
        env |-> { <<cEnvPort, <<"3">> >>, <<cEnvAuthV2, <<"3">> >>, <<cEnvSHost, <<"3">> >> }],
       [args |-> << Arg(cHost, <<"4">>), Arg(cAuthV2Flag, <<"4">>) >>,
        env |-> { <<cEnvHost, <<"3">> >>, <<cEnvPort, <<"7">> >>, <<HookEnvKey, <<"6">> >> }],
       [args |-> << Arg(cPort, <<"4">>), Arg(<<"z">>, <<"1">>) >>, env |-> {}],
       [args |-> << Arg(cConfig, PathA), Arg(cHost, <<"4">>) >>,
        env |-> { <<cEnvPort, <<"3">> >> }],
       [args |-> <<>>, env |-> { <<cEnvPort, <<"0">> >> }],
       [args |-> <<>>, env |-> { <<cEnvPort, <<"3">> >>, <<cEnvHost, <<"y">> >> }],
       [args |-> << Arg(cHost, <<"4">>), Arg(cPort, <<"y">>) >>, env |-> {}] >>

\* the content of the configuration files, keys as viper stores them
FileContent(path) ==
    IF path = PathA THEN { <<cPort, IntValue(2)>>, <<cHost, IntValue(2)>> }
    ELSE IF path = PathB
    THEN { <<cPort, IntValue(5)>>, <<cAuthV2, IntValue(5)>>, <<cSHost, IntValue(5)>> }
    ELSE IF path = PathZero THEN { <<cPort, IntValue(0)>> }
    ELSE {}

FileReadableNever(path) == FALSE

FileReadable(path) == path \in {PathA, PathB, PathZero}

PathChoices == {<<>>, PathA, PathB, PathMissing}

Procs == {1, 2}

\* the number of loader invocations in a run
MaxCalls == 2

\* ------------------------------------------------------------------------
\* State
\* ------------------------------------------------------------------------
VARIABLES
    cfgType,      \* the type T of the configuration
    opts,         \* the options of Initialize
    callerDef,    \* the caller's default value
    callerHeap,   \* the cells the caller's value points to, as handed in
    heap,         \* the heap
    walkDef,      \* def after def = clone.Slowly(def)
    flagSet,      \* opts.flagSet: exists, flags, parsed
    initState,    \* "new", "ok" (loader returned), "err", "panic"
    initErr,      \* the error returned by Initialize
    collectBinds, \* the deferred binds captured by the loader
    viper,        \* opts.viperInstance: pflags, env, config, configFile
    osArgs,       \* os.Args[1:]
    environ,      \* the environment variables
    once,         \* sync.Once: done, and the holder of its mutex (0: free)
    onceErr,      \* the error recorded by the one-shot step
    bindIdx,      \* position of the one-shot step in collectBinds
    bindRuns,     \* how often each deferred bind has run
    parseRuns,    \* how often the loader has parsed the argument list
    pc,           \* position of each loader invocation
    confPath,     \* the confPath of each invocation
    conf,         \* the conf of each invocation
    ret,          \* what each invocation returned last
    calls,        \* number of invocations started
    fkIn,         \* identifier derivation: the path
    fkOut,        \* identifier derivation: the derived identifiers
    valIn,        \* validation: the struct type and the value handed in
    valOut,       \* validation: what the base and the wrapped validator yield
    decIn,        \* decode hooks: the destination type and the string
    decOut,       \* decode hooks: what the hook yields
    rtIn,         \* round trip: the leaf type and the text given to its flag
    rtOut,        \* round trip: the value the flag holds and the value loaded
    chkIn,        \* sibling match: the sibling's type and value, the expected text
    chkOut,       \* sibling match: whether it matches
    glob          \* two Initialize calls on the default store

vars == <<cfgType, opts, callerDef, callerHeap, heap, walkDef, flagSet, initState,
          initErr, collectBinds, viper, osArgs, environ, once, onceErr, bindIdx,
          bindRuns, parseRuns, pc, confPath, conf, ret, calls, fkIn, fkOut,
          valIn, valOut, decIn, decOut, rtIn, rtOut, chkIn, chkOut, glob>>

scenarioVars == <<cfgType, opts, callerDef, callerHeap, osArgs, environ>>

initVars == <<heap, walkDef, initState, initErr, collectBinds>>

onceVars == <<once, onceErr, bindIdx, bindRuns, parseRuns>>

fkVars == <<fkIn, fkOut>>

valVars == <<valIn, valOut>>

decVars == <<decIn, decOut>>

rtVars == <<rtIn, rtOut>>

chkVars == <<chkIn, chkOut>>

NoRet == [done |-> FALSE, conf |-> <<>>, err |-> NoErr, path |-> <<>>]

EmptyViper == [pflags |-> {}, env |-> {}, config |-> {}, configFile |-> <<>>]

InitCommon ==
    /\ heap = callerHeap
    /\ walkDef = <<>>
    /\ flagSet = [exists |-> opts.custom, flags |-> <<>>, parsed |-> FALSE]
    /\ initState = "new"
    /\ initErr = NoErr
    /\ collectBinds = <<>>
    /\ viper = EmptyViper
    /\ once = [done |-> FALSE, m |-> 0]
    /\ onceErr = NoErr
    /\ bindIdx = 0
    /\ bindRuns = <<>>
    /\ parseRuns = 0
    /\ pc = [p \in Procs |-> "idle"]
    /\ confPath = [p \in Procs |-> <<>>]
    /\ conf = [p \in Procs |-> <<>>]
    /\ ret = [p \in Procs |-> NoRet]
    /\ calls = 0

Init ==
    /\ \E i \in 1..Len(Scenarios) :
        /\ cfgType = Scenarios[i].T
        /\ opts = Scenarios[i].opts
        /\ callerDef = Scenarios[i].def
        /\ callerHeap = Scenarios[i].cells
        /\ \E j \in 1..(IF i <= Len(LoadScenarios) THEN Len(Environments) ELSE 1) :
            /\ osArgs = Environments[j].args
            /\ environ = Environments[j].env
    /\ InitCommon
    /\ fkIn = <<>>
    /\ fkOut = <<>>
    /\ valIn = <<>>
    /\ valOut = <<>>
    /\ decIn = <<>>
    /\ decOut = <<>>
    /\ rtIn = <<>>
    /\ rtOut = <<>>
    /\ chkIn = <<>>
    /\ chkOut = <<>>
    /\ glob = <<>>

\* ------------------------------------------------------------------------
\* Initialize
\* ------------------------------------------------------------------------
\* the flags of the registry the walk registers into: the caller's, or a
\* new one holding the reserved flag --config / -c
WalkFlags(o, fs) ==
    IF o.custom THEN fs.flags
    ELSE << Flag(cConfig, <<"c">>, "string", <<>>, <<>>) >>

Initialize ==
    /\ initState = "new"
    /\ LET c == Slowly(heap, cfgType, callerDef)
           acc0 == [err |-> NoErr, flags |-> WalkFlags(opts, flagSet), binds |-> <<>>,
                    heap |-> c.heap]
           r == initializeRecursive(opts, acc0, cfgType, c.v, <<>>)
       IN  /\ walkDef' = c.v
           /\ heap' = r.heap
           /\ initErr' = r.err
           /\ IF IsErr(r.err)
              THEN /\ initState' = IF r.err.kind = "panic: flag redefined"
                                   THEN "panic" ELSE "err"
                   /\ collectBinds' = <<>>
                   /\ flagSet' = IF opts.custom THEN [flagSet EXCEPT !.flags = r.flags]
                                 ELSE flagSet
                   /\ bindRuns' = <<>>
              ELSE /\ initState' = "ok"
                   /\ collectBinds' = r.binds
                   /\ flagSet' = [flagSet EXCEPT !.exists = TRUE, !.flags = r.flags]
                   /\ bindRuns' = [i \in 1..Len(r.binds) |-> 0]
    /\ UNCHANGED <<scenarioVars, viper, once, onceErr, bindIdx, parseRuns,
                   pc, confPath, conf, ret, calls, fkVars, valVars, decVars, rtVars, chkVars, glob>>

\* the caller parses its own registry before it invokes the loader
CallerParse ==
    /\ initState = "ok"
    /\ opts.custom
    /\ ~flagSet.parsed
    /\ \A p \in Procs : pc[p] = "idle"
    /\ flagSet' = [flagSet EXCEPT !.parsed = TRUE,
                                  !.flags = ParseArgs(flagSet.flags, osArgs).flags]
    /\ UNCHANGED <<scenarioVars, initVars, viper, onceVars, pc, confPath, conf, ret,
                   calls, fkVars, valVars, decVars, rtVars, chkVars, glob>>

\* ------------------------------------------------------------------------
\* The loader returned by Initialize
\* ------------------------------------------------------------------------
\* returning the instance at hand with the error (a mutation of ErrorResult)
ErrorResultConf(t, c) == c

\* what an invocation returns together with an error: var zero T
ErrorResult(t, c) == ZeroConf(t)

\* the return of invocation p
Return(p, c, e) ==
    /\ ret' = [ret EXCEPT ![p] = [done |-> TRUE, conf |-> c, err |-> e, path |-> confPath[p]]]
    /\ pc' = [pc EXCEPT ![p] = "ret"]

Goto(p, l) == pc' = [pc EXCEPT ![p] = l]

\* loader(ctx, path)
Call(p, path) ==
    /\ initState = "ok"
    /\ pc[p] = "idle"
    /\ calls < MaxCalls
    /\ calls' = calls + 1
    /\ confPath' = [confPath EXCEPT ![p] = path]
    /\ conf' = [conf EXCEPT ![p] = <<>>]
    /\ ret' = [ret EXCEPT ![p] = NoRet]
    /\ Goto(p, "once")
    /\ UNCHANGED <<scenarioVars, initVars, flagSet, viper, onceVars, fkVars, valVars, decVars, rtVars, chkVars, glob>>

\* sync.Once.Do, fast path: o.done.Load() == 0 decides whether doSlow runs
OnceFast(p) ==
    /\ pc[p] = "once"
    /\ Goto(p, IF once.done THEN "checkErr" ELSE "lock")
    /\ UNCHANGED <<scenarioVars, initVars, flagSet, viper, onceVars, confPath, conf, ret,
                   calls, fkVars, valVars, decVars, rtVars, chkVars, glob>>

\* doSlow without the second look at done (a mutation of OnceMustRun)
OnceMustRunAlways(o) == TRUE

\* doSlow entered under the mutex: f has to run
OnceMustRun(o) == ~o.done

\* doSlow: o.m.Lock(); if o.done.Load() == 0 { f() }
OnceLock(p) ==
    /\ pc[p] = "lock"
    /\ once.m = 0
    /\ IF OnceMustRun(once)
       THEN /\ once' = [once EXCEPT !.m = p]
            /\ Goto(p, "parse")
       ELSE /\ once' = once
            /\ Goto(p, "checkErr")
    /\ UNCHANGED <<scenarioVars, initVars, flagSet, viper, onceErr, bindIdx, bindRuns,
                   parseRuns, confPath, conf, ret, calls, fkVars, valVars, decVars, rtVars, chkVars, glob>>

\* a loader that parses whatever the caller did (a mutation of MustParse)
MustParseAlways(fs) == TRUE

\* !opts.flagSet.Parsed()
MustParse(fs) == ~fs.parsed

\* if !opts.flagSet.Parsed() { opts.flagSet.Parse(os.Args[1:]) }
OnceParse(p) ==
    /\ pc[p] = "parse"
    /\ IF MustParse(flagSet)
       THEN LET r == ParseArgs(flagSet.flags, osArgs)
            IN  /\ flagSet' = [flagSet EXCEPT !.parsed = TRUE, !.flags = r.flags]
                /\ parseRuns' = parseRuns + 1
                /\ IF IsErr(r.err)
                   THEN /\ onceErr' = Err("failed to parse flags", NoType, r.err.key)
                        /\ bindIdx' = bindIdx
                        /\ Goto(p, "unlock")
                   ELSE /\ onceErr' = onceErr
                        /\ bindIdx' = 1
                        /\ Goto(p, "bind")
       ELSE /\ UNCHANGED <<flagSet, parseRuns, onceErr>>
            /\ bindIdx' = 1
            /\ Goto(p, "bind")
    /\ UNCHANGED <<scenarioVars, initVars, viper, once, bindRuns, confPath, conf, ret,
                   calls, fkVars, valVars, decVars, rtVars, chkVars, glob>>

\* one deferred bind: the store after it, or the error
RunBind(v, flags, b) ==
    IF b.op = "BindPFlag"
    THEN IF Lookup(flags, b.name) = 0
         THEN [err |-> Err("failed to bind flag", NoType, b.name), v |-> v]
         ELSE [err |-> NoErr, v |-> [v EXCEPT !.pflags = MapPut(@, ToLower(b.key), b.name)]]
    ELSE [err |-> NoErr, v |-> [v EXCEPT !.env = MapPut(@, ToLower(b.key), b.name)]]

\* for _, bind := range collectBinds { if err := bind(); err != nil { ... } }
OnceBind(p) ==
    /\ pc[p] = "bind"
    /\ IF bindIdx > Len(collectBinds)
       THEN /\ Goto(p, "unlock")
            /\ UNCHANGED <<viper, onceErr, bindIdx, bindRuns>>
       ELSE LET r == RunBind(viper, flagSet.flags, collectBinds[bindIdx])
            IN  /\ bindRuns' = [bindRuns EXCEPT ![bindIdx] = @ + 1]
                /\ viper' = r.v
                /\ IF IsErr(r.err)
                   THEN /\ onceErr' = r.err
                        /\ bindIdx' = bindIdx
                        /\ Goto(p, "unlock")
                   ELSE /\ onceErr' = onceErr
                        /\ bindIdx' = bindIdx + 1
                        /\ Goto(p, "bind")
    /\ UNCHANGED <<scenarioVars, initVars, flagSet, once, parseRuns, confPath, conf, ret,
                   calls, fkVars, valVars, decVars, rtVars, chkVars, glob>>

\* defer o.done.Store(1); defer o.m.Unlock()
OnceUnlock(p) ==
    /\ pc[p] = "unlock"
    /\ once' = [done |-> TRUE, m |-> 0]
    /\ Goto(p, "checkErr")
    /\ UNCHANGED <<scenarioVars, initVars, flagSet, viper, onceErr, bindIdx, bindRuns,
                   parseRuns, confPath, conf, ret, calls, fkVars, valVars, decVars, rtVars, chkVars, glob>>

\* a loader that forgets the recorded error (a mutation of OnceFailed)
OnceFailedNever(e) == FALSE

\* onceErr != nil
OnceFailed(e) == IsErr(e)

\* if onceErr != nil { return zero, onceErr }
CheckErr(p) ==
    /\ pc[p] = "checkErr"
    /\ IF OnceFailed(onceErr)
       THEN Return(p, ErrorResult(cfgType, conf[p]), onceErr)
       ELSE Goto(p, "setFile") /\ ret' = ret
    /\ UNCHANGED <<scenarioVars, initVars, flagSet, viper, onceVars, confPath, conf,
                   calls, fkVars, valVars, decVars, rtVars, chkVars, glob>>

\* the variable the reserved flag --config is bound to
flagConfig(o, fs) ==
    IF o.custom THEN <<>> ELSE fs.flags[Lookup(fs.flags, cConfig)].value

\* if confPath == "" { confPath = flagConfig }
\* if confPath != "" { opts.viperInstance.SetConfigFile(confPath) ...
SetFile(p) ==
    /\ pc[p] = "setFile"
    /\ LET path == IF confPath[p] = <<>> THEN flagConfig(opts, flagSet) ELSE confPath[p]
       IN  /\ confPath' = [confPath EXCEPT ![p] = path]
           /\ IF path # <<>>
              THEN /\ viper' = [viper EXCEPT !.configFile = path]
                   /\ Goto(p, "readFile")
              ELSE /\ viper' = viper
                   /\ Goto(p, "unmarshal")
    /\ UNCHANGED <<scenarioVars, initVars, flagSet, onceVars, conf, ret, calls, fkVars, valVars, decVars, rtVars, chkVars, glob>>

\* ... if err := opts.viperInstance.ReadInConfig(); err != nil { return zero, ... } }
\* ReadInConfig reads the file set last and replaces the configuration
ReadFile(p) ==
    /\ pc[p] = "readFile"
    /\ IF FileReadable(viper.configFile)
       THEN /\ viper' = [viper EXCEPT !.config = FileContent(viper.configFile)]
            /\ Goto(p, "unmarshal")
            /\ ret' = ret
       ELSE /\ viper' = viper
            /\ Return(p, ErrorResult(cfgType, conf[p]),
                      Err("failed to read config", NoType, confPath[p]))
    /\ UNCHANGED <<scenarioVars, initVars, flagSet, onceVars, confPath, conf, calls, fkVars, valVars, decVars, rtVars, chkVars, glob>>

\* var conf T; if err := opts.viperInstance.Unmarshal(&conf, ...); err != nil { return zero, ... }
UnmarshalConf(p) ==
    /\ pc[p] = "unmarshal"
    /\ LET r == Unmarshal(cfgType, viper, flagSet.flags, environ)
       IN  /\ conf' = [conf EXCEPT ![p] = r.v]
           /\ IF r.bad # {}
              THEN Return(p, ErrorResult(cfgType, r.v),
                          Err("failed to unmarshal config", NoType, CHOOSE k \in r.bad : TRUE))
              ELSE Goto(p, "validate") /\ ret' = ret
    /\ UNCHANGED <<scenarioVars, initVars, flagSet, viper, onceVars, confPath, calls, fkVars, valVars, decVars, rtVars, chkVars, glob>>

\* if err := enhancedValidator.StructCtx(ctx, conf); err != nil { return zero, ... }
\* return conf, nil
Validate(p) ==
    /\ pc[p] = "validate"
    /\ LET r == StructCtx(cfgType, conf[p])
       IN  IF r.kind = "nil" THEN Return(p, conf[p], NoErr)
           ELSE IF r.kind = "panic" THEN Goto(p, "panic") /\ ret' = ret
           ELSE Return(p, ErrorResult(cfgType, conf[p]),
                       Err("validation failed for config", NoType, r.errs))
    /\ UNCHANGED <<scenarioVars, initVars, flagSet, viper, onceVars, confPath, conf,
                   calls, fkVars, valVars, decVars, rtVars, chkVars, glob>>

\* the caller has received the result
Finish(p) ==
    /\ pc[p] = "ret"
    /\ Goto(p, "idle")
    /\ UNCHANGED <<scenarioVars, initVars, flagSet, viper, onceVars, confPath, conf, ret,
                   calls, fkVars, valVars, decVars, rtVars, chkVars, glob>>

Next ==
    \/ Initialize
    \/ CallerParse
    \/ \E p \in Procs, path \in PathChoices : Call(p, path)
    \/ \E p \in Procs : OnceFast(p)
    \/ \E p \in Procs : OnceLock(p)
    \/ \E p \in Procs : OnceParse(p)
    \/ \E p \in Procs : OnceBind(p)
    \/ \E p \in Procs : OnceUnlock(p)
    \/ \E p \in Procs : CheckErr(p)
    \/ \E p \in Procs : SetFile(p)
    \/ \E p \in Procs : ReadFile(p)
    \/ \E p \in Procs : UnmarshalConf(p)
    \/ \E p \in Procs : Validate(p)
    \/ \E p \in Procs : Finish(p)

Spec == Init /\ [][Next]_vars

\* ------------------------------------------------------------------------
\* The leaves of a configuration type as the specification describes them
\* ------------------------------------------------------------------------
PlainStruct(t) == t.kind = "struct" /\ t.name = ""

JoinKey(prefix, seg) == IF prefix = <<>> THEN seg ELSE prefix \o <<".">> \o seg

\* the leaves of struct type t in declaration order: position in the value
\* (field indexes), path, type without pointers.  An unexported or ignored
\* field has none, a squashed struct contributes its leaves under the
\* prefix of its parent, a nested struct under the extended prefix.
RECURSIVE SpecLeaves(_, _, _)
RECURSIVE SpecLeavesFrom(_, _, _, _)
SpecLeaves(t, prefix, loc) == SpecLeavesFrom(t, prefix, loc, 1)

SpecLeavesFrom(t, prefix, loc, i) ==
    IF i > Len(t.fields) THEN <<>>
    ELSE LET fd == t.fields[i]
             ft == [fd.typ EXCEPT !.ptr = 0]
             seg == IF TrimSpace(fd.tag) = <<>> THEN fd.name ELSE TrimSpace(fd.tag)
             here == IF ~IsUpper(fd.name[1]) \/ seg = <<"-">> THEN <<>>
                     ELSE IF seg = cSquash
                     THEN (IF PlainStruct(ft) THEN SpecLeaves(ft, prefix, Append(loc, i))
                           ELSE <<>>)
                     ELSE IF PlainStruct(ft)
                     THEN SpecLeaves(ft, JoinKey(prefix, seg), Append(loc, i))
                     ELSE << [loc |-> Append(loc, i), path |-> JoinKey(prefix, seg),
                              typ |-> ft, decl |-> fd.typ] >>
         IN  here \o SpecLeavesFrom(t, prefix, loc, i + 1)

Leaves == SpecLeaves(cfgType, <<>>, <<>>)

\* the value at position loc of a decoded configuration c of type t; -1 when
\* a pointer on the way is nil
RECURSIVE ConfAt(_, _, _)
ConfAt(t, c, loc) ==
    IF t.ptr > 0 THEN (IF c = <<>> THEN -1 ELSE ConfAt(Deref(t), c[1], loc))
    ELSE IF loc = <<>> THEN c
    ELSE ConfAt(t.fields[Head(loc)].typ, c[Head(loc)], Tail(loc))

\* the value at position loc of the caller's default v of type t in heap h;
\* the zero value when a pointer on the way is unset
RECURSIVE DefAt(_, _, _, _)
DefAt(h, t, v, loc) ==
    IF t.ptr > 0 THEN (IF v = 0 THEN 0 ELSE DefAt(h, Deref(t), h[v], loc))
    ELSE IF loc = <<>> THEN v
    ELSE DefAt(h, t.fields[Head(loc)].typ, v[Head(loc)], Tail(loc))

\* the environment identifier the loader bound for a path
BoundEnv(path) ==
    LET i == CHOOSE i \in 1..Len(collectBinds) :
                 collectBinds[i].op = "BindEnv" /\ ToLower(collectBinds[i].key) = ToLower(path)
    IN  collectBinds[i].name

\* the flag the loader bound for a path
BoundFlag(path) ==
    LET i == CHOOSE i \in 1..Len(collectBinds) :
                 collectBinds[i].op = "BindPFlag" /\ ToLower(collectBinds[i].key) = ToLower(path)
    IN  flagSet.flags[Lookup(flagSet.flags, collectBinds[i].name)]

Returned(p) == pc[p] = "ret"

Succeeded(p) == Returned(p) /\ ~IsErr(ret[p].err)

\* the value the precedence order gives leaf l in an invocation that was
\* handed the file `path`
ByPrecedence(l, path) ==
    IF BoundFlag(l.path).changed THEN BoundFlag(l.path).value
    ELSE IF MapHas(environ, BoundEnv(l.path)) THEN ParseInt(MapGet(environ, BoundEnv(l.path)))
    ELSE IF path # <<>> /\ MapHas(FileContent(path), ToLower(l.path))
    THEN MapGet(FileContent(path), ToLower(l.path)).v
    ELSE DefAt(callerHeap, cfgType, callerDef, l.loc)

\* C1: in every successful invocation every leaf has the value of its flag
\* if the flag was set on the command line, else the value of its bound
\* environment variable if that is set, else the value the file merged in
\* this invocation has for it, else the default handed to Initialize.
C1_Precedence ==
    \A p \in Procs :
        Succeeded(p) =>
            \A i \in 1..Len(Leaves) :
                ConfAt(cfgType, ret[p].conf, Leaves[i].loc) = ByPrecedence(Leaves[i], ret[p].path)

\* the value the store gives leaf l: as C1, with the configuration the store
\* holds in place of the file of the invocation
ByStore(l) ==
    IF BoundFlag(l.path).changed THEN BoundFlag(l.path).value
    ELSE IF MapHas(environ, BoundEnv(l.path)) THEN ParseInt(MapGet(environ, BoundEnv(l.path)))
    ELSE IF MapHas(viper.config, ToLower(l.path)) THEN MapGet(viper.config, ToLower(l.path)).v
    ELSE DefAt(callerHeap, cfgType, callerDef, l.loc)

\* the precedence order over the configuration held by the store when the
\* invocation unmarshals
C1_StorePrecedence ==
    [][\A p \in Procs :
         (pc[p] = "unmarshal" /\ pc'[p] = "validate") =>
             \A i \in 1..Len(Leaves) :
                 ConfAt(cfgType, conf'[p], Leaves[i].loc) = ByStore(Leaves[i])]_vars

\* ------------------------------------------------------------------------
\* The one-shot step
\* ------------------------------------------------------------------------
PastOnce == {"checkErr", "setFile", "readFile", "unmarshal", "validate", "ret"}

InOnce == {"parse", "bind", "unlock"}

\* the one-shot step has run to its end: it failed, or every bind has run
OneShotCompleted ==
    /\ once.done
    /\ \A q \in Procs : pc[q] \notin InOnce
    /\ IsErr(onceErr) \/ \A i \in 1..Len(bindRuns) : bindRuns[i] = 1

\* C2: over all invocations of a loader, concurrent first ones included, the
\* loader parses the arguments at most once and runs each deferred bind at
\* most once, and no invocation is past the one-shot step (checking its
\* error, reading the file, unmarshalling) before that step has completed.
C2_OneShotOnce ==
    /\ parseRuns <= 1
    /\ \A i \in 1..Len(bindRuns) : bindRuns[i] <= 1
    /\ \A p \in Procs : pc[p] \in PastOnce => OneShotCompleted

\* two invocations are past a one-shot step that ran every bind
C2_Witness ==
    /\ calls = 2
    /\ pc[1] = "unmarshal"
    /\ pc[2] = "checkErr"
    /\ Len(bindRuns) > 0
    /\ \A i \in 1..Len(bindRuns) : bindRuns[i] = 1

EqErr(a, b) == a.kind = b.kind /\ a.key = b.key

\* C3: once the one-shot step has failed, every invocation that returns
\* returns the recorded error, whatever its path argument, and the step
\* is not run again: no further parse, no further bind, the recorded
\* error stays.
C3_FailureReplayed ==
    /\ [](IsErr(onceErr) => \A p \in Procs : Returned(p) => EqErr(ret[p].err, onceErr))
    /\ [][IsErr(onceErr) =>
            /\ onceErr' = onceErr
            /\ parseRuns' = parseRuns
            /\ bindRuns' = bindRuns
            /\ viper' = viper]_vars

\* two invocations with different path arguments returned the recorded error
C3_Witness ==
    /\ IsErr(onceErr)
    /\ Returned(1) /\ Returned(2)
    /\ ret[1].path = <<>> /\ ret[2].path = PathB
    /\ EqErr(ret[1].err, onceErr) /\ EqErr(ret[2].err, onceErr)

\* C4: an invocation that returns an error returns the zero value of T.
C4_ZeroOnError ==
    \A p \in Procs :
        (Returned(p) /\ IsErr(ret[p].err)) => ret[p].conf = ZeroConf(cfgType)

\* a validation failure was returned for an instance that had been populated
C4_Witness ==
    /\ Returned(1)
    /\ ret[1].err.kind = "validation failed for config"
    /\ conf[1] # ZeroConf(cfgType)
    /\ ret[1].conf = ZeroConf(cfgType)

\* an unmarshal failure was returned after a part of the instance was populated
C4_WitnessPartial ==
    /\ Returned(1)
    /\ ret[1].err.kind = "failed to unmarshal config"
    /\ conf[1] # ZeroConf(cfgType)

\* ------------------------------------------------------------------------
\* A failing Initialize
\* ------------------------------------------------------------------------
\* C5: when Initialize fails (unsupported type, invalid squash target, hook
\* error) no flag registered during the aborted walk remains in the flag
\* registry, the caller's included, no bind is kept and the store has no
\* binding.
C5_NoPartialRegistration ==
    initState = "err" =>
        /\ flagSet.flags = <<>>
        /\ collectBinds = <<>>
        /\ viper = EmptyViper

\* ------------------------------------------------------------------------
\* The caller's default value
\* ------------------------------------------------------------------------
\* C6: the cells of the caller's default value keep their content through
\* Initialize and every invocation, and the value the walk dereferences and
\* allocates for is a copy that shares no cell with the caller's value and
\* has the caller's value at every leaf.
C6_CallerDefaultUnchanged ==
    /\ Len(heap) >= Len(callerHeap)
    /\ SubSeq(heap, 1, Len(callerHeap)) = callerHeap
    /\ initState # "new" =>
        /\ Reach(heap, cfgType, walkDef) \cap (1..Len(callerHeap)) = {}
        /\ PlainStruct(cfgType) =>
            \A i \in 1..Len(Leaves) :
                DefAt(heap, cfgType, walkDef, Leaves[i].loc)
                    = DefAt(callerHeap, cfgType, callerDef, Leaves[i].loc)

\* an invocation succeeded for a default whose optional reference is unset,
\* after the walk allocated instances for it
C6_Witness ==
    /\ Succeeded(1)
    /\ cfgType = CfgT
    /\ callerDef[3] = 0
    /\ Len(heap) > Len(callerHeap)

\* an invocation succeeded for a default whose optional reference is set
C6_WitnessSet ==
    /\ Succeeded(1)
    /\ cfgType = CfgT
    /\ callerDef[3] # 0
    /\ Len(heap) > Len(callerHeap)

\* ------------------------------------------------------------------------
\* Ignored fields
\* ------------------------------------------------------------------------
IsIgnoredField(fd) == IsUpper(fd.name[1]) /\ TrimSpace(fd.tag) = <<"-">>

\* C7: a field tagged "-" yields no flag, no environment binding, no
\* type-support error of Initialize and no validation error in any
\* invocation.
C7_IgnoredContributesNothing ==
    \A i \in 1..Len(cfgType.fields) :
        LET fd == cfgType.fields[i]
        IN  IsIgnoredField(fd) =>
            /\ \A j \in 1..Len(flagSet.flags) :
                   flagSet.flags[j].name \notin {FlagKeyOf(fd.name), <<"-">>}
            /\ \A j \in 1..Len(collectBinds) :
                   collectBinds[j].key \notin {fd.name, <<"-">>}
            /\ ~(IsErr(initErr) /\ initErr.typ = [fd.typ EXCEPT !.ptr = 0])
            /\ \A p \in Procs :
                   (Returned(p) /\ ret[p].err.kind = "validation failed for config") =>
                       \A k \in 1..Len(ret[p].err.key) :
                           ret[p].err.key[k][1] # <<".">> \o fd.name

\* ------------------------------------------------------------------------
\* Squashed fields
\* ------------------------------------------------------------------------
IsSquashedField(fd) ==
    /\ IsUpper(fd.name[1])
    /\ TrimSpace(fd.tag) = cSquash
    /\ fd.typ.ptr = 0
    /\ PlainStruct(fd.typ)

\* the struct type with the children of every squashed field declared
\* directly on the parent, and a value of it
RECURSIVE FlattenFields(_, _)
FlattenFields(t, i) ==
    IF i > Len(t.fields) THEN <<>>
    ELSE LET fd == t.fields[i]
             here == IF IsSquashedField(fd) THEN FlattenFields(fd.typ, 1)
                     ELSE IF fd.typ.ptr = 0 /\ PlainStruct(fd.typ)
                     THEN << [fd EXCEPT !.typ = StructOf(FlattenFields(fd.typ, 1))] >>
                     ELSE <<fd>>
         IN  here \o FlattenFields(t, i + 1)

Flatten(t) == StructOf(FlattenFields(t, 1))

RECURSIVE FlattenValue(_, _, _)
FlattenValue(t, v, i) ==
    IF i > Len(t.fields) THEN <<>>
    ELSE LET fd == t.fields[i]
             here == IF IsSquashedField(fd) THEN FlattenValue(fd.typ, v[i], 1)
                     ELSE IF fd.typ.ptr = 0 /\ PlainStruct(fd.typ)
                     THEN << FlattenValue(fd.typ, v[i], 1) >>
                     ELSE << v[i] >>
         IN  here \o FlattenValue(t, v, i + 1)

\* the walk of the flattened type over the flattened copy of the default
FlatWalk ==
    LET c == Slowly(heap, cfgType, callerDef)
        acc0 == [err |-> NoErr, flags |-> WalkFlags(opts, flagSet), binds |-> <<>>,
                 heap |-> c.heap]
    IN  initializeRecursive(opts, acc0, Flatten(cfgType), FlattenValue(cfgType, c.v, 1), <<>>)

\* C8: the children of squashed fields get the flags (identifier, type,
\* default, usage) and the binds (path, flag identifier, environment
\* identifier) of the same children declared directly on the parent, and
\* every invocation loads for them the values it would load into the
\* flattened struct.
C8_SquashTransparent ==
    [][/\ (initState = "new" /\ initState' = "ok") =>
            /\ flagSet'.flags = FlatWalk.flags
            /\ collectBinds' = FlatWalk.binds
       /\ \A p \in Procs :
            (pc[p] = "unmarshal" /\ pc'[p] # "unmarshal") =>
                LET flat == Unmarshal(Flatten(cfgType), viper, flagSet.flags, environ)
                IN  /\ FlattenValue(cfgType, conf'[p], 1) = flat.v
                    /\ (ret'[p].err.kind = "failed to unmarshal config") = (flat.bad # {})]_vars

\* an invocation loaded the children of squashed fields, two levels deep,
\* from the file: host from file "b" is absent, s.host is 5
C8_Witness ==
    /\ cfgType = CfgSqT
    /\ Succeeded(1)
    /\ ret[1].path = PathB
    /\ ret[1].conf[2][2][1][1] = 5

\* an invocation loaded the child of a squashed field from its flag
C8_WitnessFlag ==
    /\ cfgType = CfgT
    /\ Succeeded(1)
    /\ ret[1].conf[2][1] = 4

\* ------------------------------------------------------------------------
\* Unsupported types
\* ------------------------------------------------------------------------
SupportedSliceElems ==
    {"bool", "float32", "float64", "int", "int32", "int64", "string",
     "uint", "uint8", "uint32", "uint64", "struct"}

\* the unsupported leaf types C9 lists
UnsupportedLeafType(t) ==
    \/ t.kind \in {"chan", "func", "complex64", "complex128", "interface"}
    \/ t.kind = "slice" /\ (t.elem.ptr > 0 \/ t.elem.kind \notin SupportedSliceElems)
    \/ t.kind = "map" /\ \/ t.key.ptr > 0 \/ t.key.kind # "string"
                         \/ t.elem.ptr > 0 \/ t.elem.kind \notin {"int", "int64", "string"}

UnsupportedLeaves ==
    IF PlainStruct(cfgType) THEN SelectSeq(Leaves, LAMBDA l : UnsupportedLeafType(l.typ))
    ELSE <<>>

\* C9 as stated: with an unsupported leaf Initialize fails and the error
\* names the path of the leaf and its type.
C9_ErrorNamesPathAndType ==
    (initState # "new" /\ UnsupportedLeaves # <<>>) =>
        /\ initState = "err"
        /\ \E i \in 1..Len(UnsupportedLeaves) :
               /\ initErr.key = UnsupportedLeaves[i].path
               /\ initErr.typ = UnsupportedLeaves[i].typ

\* what the error names for an unsupported leaf
ErrorNames(l) ==
    IF l.typ.kind = "slice" THEN [key |-> FlagKeyOf(l.path), typ |-> l.typ.elem]
    ELSE IF l.typ.kind = "map"
    THEN [key |-> FlagKeyOf(l.path),
          typ |-> IF l.typ.key.ptr > 0 \/ l.typ.key.kind # "string"
                  THEN l.typ.key ELSE l.typ.elem]
    ELSE [key |-> l.path, typ |-> l.typ]

\* C9 amended: with an unsupported leaf Initialize fails; for a channel, a
\* function, a complex number or an interface the error names the path of
\* the leaf and its type without pointers, for a slice or a map it names
\* the flag identifier of the leaf and the rejected element, key or value
\* type.
C9_UnsupportedLeafFails ==
    (initState # "new" /\ UnsupportedLeaves # <<>>) =>
        /\ initState = "err"
        /\ \E i \in 1..Len(UnsupportedLeaves) :
               /\ initErr.key = ErrorNames(UnsupportedLeaves[i]).key
               /\ initErr.typ = ErrorNames(UnsupportedLeaves[i]).typ

\* Initialize failed on a map with a key type other than string
C9_Witness ==
    /\ initState = "err"
    /\ initErr.kind = "only string keys are supported for map type"
    /\ initErr.key = <<"t","o","-","f","n">>
    /\ initErr.typ = TyInt

\* ------------------------------------------------------------------------
\* The identifier derivation on its own: the second specification draws a
\* parent key, a tag and a field name and derives the identifiers of the
\* field as the walk does.
\* ------------------------------------------------------------------------
\* the longest tag drawn
MaxLen == 3

Alphabet == {"a", "B", "1", "_"}

\* the strings over Alphabet of length 1..n
RECURSIVE StringsUpTo(_)
StringsUpTo(n) ==
    IF n = 0 THEN {}
    ELSE LET shorter == StringsUpTo(n - 1)
         IN  {<<c>> : c \in Alphabet} \cup shorter
                 \cup {Append(w, c) : w \in shorter, c \in Alphabet}

cExtra == <<"e","x","t","r","a">>

cStringToInt64 == <<"s","t","r","i","n","g","T","o","I","n","t","6","4">>

cMaxIdleConns == <<"M","a","x","I","d","l","e","C","o","n","n","s">>

FieldIn(parent, tag, name) == [parent |-> parent, tag |-> tag, name |-> name]

\* the inputs: a tag under no parent, under a parent and under a nested
\* parent; an untagged field; the two fields of TestInitializeLoader
FieldInputs ==
    {FieldIn(parent, tag, cX) :
        parent \in {<<>>, <<"a">>, <<"a",".","B","1">>}, tag \in StringsUpTo(MaxLen)}
    \cup {FieldIn(parent, <<>>, name) :
        parent \in {<<>>, <<"a">>}, name \in {cMaxC, cMaxIdleConns, <<"A","1","b">>}}
    \cup {FieldIn(cExtra, cStringToInt64, cX)}

\* the prefixes: none configured (envPrefix: ""), and WithEnvPrefix
EnvPrefixes == {<<>>, EnvPrefix}

InitFlagKey ==
    /\ cfgType = Scenarios[1].T
    /\ \E prefix \in EnvPrefixes : opts = [Scenarios[1].opts EXCEPT !.envPrefix = prefix]
    /\ callerDef = Scenarios[1].def
    /\ callerHeap = Scenarios[1].cells
    /\ osArgs = <<>>
    /\ environ = {}
    /\ InitCommon
    /\ fkIn \in FieldInputs
    /\ fkOut = <<>>
    /\ valIn = <<>>
    /\ valOut = <<>>
    /\ decIn = <<>>
    /\ decOut = <<>>
    /\ rtIn = <<>>
    /\ rtOut = <<>>
    /\ chkIn = <<>>
    /\ chkOut = <<>>
    /\ glob = <<>>

\* the derivation of the identifiers of one field
Derive ==
    /\ fkOut = <<>>
    /\ fkOut' = << DeriveField(opts, Fld(fkIn.name, fkIn.tag, TyInt), fkIn.parent) >>
    /\ UNCHANGED <<scenarioVars, initVars, flagSet, viper, onceVars, pc, confPath, conf,
                   ret, calls, fkIn, valVars, decVars, rtVars, chkVars, glob>>

NextFlagKey == Derive

SpecFlagKey == InitFlagKey /\ [][NextFlagKey]_vars

\* the letters and digits of a string, lower-cased
AlnumLower(s) == ToLower(SelectSeq(s, IsAlnum))

Undashed(s) == SelectSeq(s, LAMBDA c : c # "-")

\* C10: the flag identifier is derived from the path alone, the path being
\* the segments (tag, or field name when untagged) joined by "."; it
\* consists of the letters and digits of the path in their order,
\* lower-cased, separated by single dashes, none of which stands before a
\* digit, at the start or at the end; a "." between two letters becomes a
\* dash; extra.stringToInt64 yields extra-string-to-int64 and MaxIdleConns
\* yields max-idle-conns.
C10_FlagKey ==
    fkOut # <<>> =>
        LET seg == IF fkIn.tag = <<>> THEN fkIn.name ELSE fkIn.tag
            path == IF fkIn.parent = <<>> THEN seg ELSE fkIn.parent \o <<".">> \o seg
            key == fkOut[1].FlagKey
        IN  /\ fkOut[1].ViperKey = path
            /\ \A i \in 1..Len(key) : IsLower(key[i]) \/ IsDigit(key[i]) \/ key[i] = "-"
            /\ Undashed(key) = AlnumLower(path)
            /\ \A i \in 1..Len(key) :
                   key[i] = "-" => /\ i > 1 /\ i < Len(key)
                                   /\ key[i + 1] # "-"
                                   /\ ~IsDigit(key[i + 1])
            /\ (fkIn.parent # <<>> /\ IsLetter(fkIn.parent[Len(fkIn.parent)])
                    /\ IsLetter(seg[1])) =>
                   /\ Len(key) > Len(FlagKeyOf(fkIn.parent))
                   /\ SubSeq(key, 1, Len(FlagKeyOf(fkIn.parent)) + 1)
                          = Append(FlagKeyOf(fkIn.parent), "-")
            /\ path = cExtra \o <<".">> \o cStringToInt64 =>
                   key = cExtra \o <<"-","s","t","r","i","n","g","-","t","o","-","i","n","t","6","4">>
            /\ path = cMaxIdleConns =>
                   key = <<"m","a","x","-","i","d","l","e","-","c","o","n","n","s">>

\* the identifier of extra.stringToInt64 has been derived
C10_Witness ==
    /\ fkOut # <<>>
    /\ fkIn = FieldIn(cExtra, cStringToInt64, cX)
    /\ fkOut[1].FlagKey = cExtra \o <<"-","s","t","r","i","n","g","-","t","o","-","i","n","t","6","4">>

\* C11: the environment identifier of a leaf is the configured prefix (empty
\* when none is configured) followed by the flag identifier of the leaf,
\* upper-cased, every dash replaced by an underscore.
C11_EnvKey ==
    fkOut # <<>> =>
        LET key == fkOut[1].FlagKey
            env == fkOut[1].EnvKey
            n == Len(opts.envPrefix)
        IN  /\ Len(env) = n + Len(key)
            /\ SubSeq(env, 1, n) = opts.envPrefix
            /\ \A i \in 1..Len(key) :
                   env[n + i] = IF key[i] = "-" THEN "_" ELSE ToUpperCh(key[i])
            /\ (fkOut[1].ViperKey = cMaxIdleConns /\ opts.envPrefix = EnvPrefix) =>
                   env = <<"A","_","M","A","X","_","I","D","L","E","_","C","O","N","N","S">>

\* the environment identifier of a path with a separator was derived without
\* a prefix
C11_Witness ==
    /\ fkOut # <<>>
    /\ opts.envPrefix = <<>>
    /\ fkIn = FieldIn(cExtra, cStringToInt64, cX)
    /\ fkOut[1].EnvKey = <<"E","X","T","R","A","_","S","T","R","I","N","G","_","T","O","_","I","N","T","6","4">>

\* the environment identifier was derived with the configured prefix
C11_WitnessPrefix ==
    /\ fkOut # <<>>
    /\ opts.envPrefix = EnvPrefix
    /\ fkOut[1].FlagKey = <<"a","-","b","1">>
    /\ fkOut[1].EnvKey = <<"A","_","A","_","B","1">>

\* ------------------------------------------------------------------------
\* The rewrite hook
\* ------------------------------------------------------------------------
HookApplies == initState = "ok" /\ opts.hook.mode \in {"env", "all"}

\* what the walk derives for the field the hook rewrites, and what the hook
\* returns for it
HookDerived == DeriveField(opts, FPort, <<>>)

HookReturned == IF opts.hook.mode = "all" THEN HookField
                ELSE [HookDerived EXCEPT !.EnvKey = HookEnvKey]

\* the value an invocation loads for a key bound to flag fl and environment
\* variable ev, none of them set to a non-number
LoadedFrom(fl, ev, key, def) ==
    LET fi == Lookup(flagSet.flags, fl)
    IN  IF flagSet.flags[fi].changed THEN flagSet.flags[fi].value
        ELSE IF MapHas(environ, ev) THEN ParseInt(MapGet(environ, ev))
        ELSE IF MapHas(viper.config, key) THEN MapGet(viper.config, key).v
        ELSE def

\* C12: with a rewrite hook the flag is registered under the flag
\* identifier and usage the hook returned, the two binds carry the path,
\* flag identifier and environment identifier the hook returned, nothing is
\* registered or bound under a derived name the hook replaced, and the
\* loaded value comes from the flag, the replacement variable, the file or
\* the default, whatever the variable of the derived name holds.
C12_HookRewrites ==
    [][/\ (initState = "new" /\ initState' = "ok" /\ opts.hook.mode \in {"env", "all"}) =>
            LET d == HookDerived
                r == HookReturned
                flags == flagSet'.flags
                fi == Lookup(flags, r.FlagKey)
            IN  /\ fi # 0
                /\ flags[fi].usage = r.Usage
                /\ d.FlagKey # r.FlagKey => Lookup(flags, d.FlagKey) = 0
                /\ \E i \in 1..Len(collectBinds') :
                       collectBinds'[i] = [op |-> "BindPFlag", key |-> r.ViperKey,
                                           name |-> r.FlagKey]
                /\ \E i \in 1..Len(collectBinds') :
                       collectBinds'[i] = [op |-> "BindEnv", key |-> r.ViperKey,
                                           name |-> r.EnvKey]
                /\ \A i \in 1..Len(collectBinds') :
                       /\ collectBinds'[i].name # d.EnvKey
                       /\ collectBinds'[i].key = d.ViperKey => r.ViperKey = d.ViperKey
       /\ \A p \in Procs :
            (pc[p] = "unmarshal" /\ pc'[p] = "validate" /\ HookApplies) =>
                LET r == HookReturned
                IN  conf'[p][1] = LoadedFrom(r.FlagKey, r.EnvKey, cPort, callerDef[1])]_vars

\* the test of the hook: the derived name and the replacement name are both
\* set, the invocation loads the value of the replacement
C12_Witness ==
    /\ opts.hook.mode = "env"
    /\ Succeeded(1)
    /\ MapHas(environ, cEnvPort) /\ MapGet(environ, cEnvPort) = <<"7">>
    /\ MapGet(environ, HookEnvKey) = <<"6">>
    /\ ret[1].conf[1] = 6

\* the hook replaced all four items and the invocation loads the value of
\* the replacement variable
C12_WitnessAll ==
    /\ opts.hook.mode = "all"
    /\ Succeeded(1)
    /\ MapHas(environ, cEnvPort) /\ MapGet(environ, cEnvPort) = <<"7">>
    /\ ret[1].conf[1] = 6

\* ------------------------------------------------------------------------
\* Validation on its own: the wrapped validator applied to a struct with a
\* nested struct gated by skip_nested_unless (TestSkipNestedUnless)
\* ------------------------------------------------------------------------
MaxPairs == 2

cName == <<"N","a","m","e">>
cFoo == <<"F","o","o">>
cKind == <<"K","i","n","d">>
cAlt == <<"A","l","t">>
cfoo == <<"f","o","o">>
cbar == <<"b","a","r">>
cfo == <<"f"," ","o">>

RequiredRule == Rule("required", <<>>)

\* type Foo struct { Name string `validate:"required"` }
FooT == StructOf(<< WithRules(Fld(cName, <<>>, TyString), <<RequiredRule>>) >>)

\* type Bar struct {
\*     Kind string `validate:"required"`
\*     Foo  Foo (or *Foo) `validate:"<rules>"`
\*     N    int  `validate:"gte=1"`
\*     P    *int
\*     Alt  Foo  `validate:"skip_nested_unless=Kind bar"`
\* }
BarT(fooT, rules) ==
    StructOf(<< WithRules(Fld(cKind, <<>>, TyString), <<RequiredRule>>),
                WithRules(Fld(cFoo, <<>>, fooT), rules),
                WithRules(Fld(<<"N">>, <<>>, TyInt), << Rule("gte", <<"1">>) >>),
                Fld(<<"P">>, <<>>, PtrTo(TyInt)),
                WithRules(Fld(cAlt, <<>>, FooT),
                          << Rule(skipNestedUnlessTag, cKind \o <<" ">> \o cbar) >>) >>)

\* a pair of the parameter list: the sibling and the value as written in the
\* tag, with what the pair asks for: the position of the sibling in Bar (0
\* when Bar has no such field) and the value it must hold
Pair(name, text, idx, is) == [name |-> name, text |-> text, idx |-> idx, is |-> is]

Pairs ==
    { Pair(cKind, cfoo, 1, cfoo),
      Pair(cKind, <<"'">> \o cfo \o <<"'">>, 1, cfo),
      Pair(<<"N">>, <<"1">>, 3, 1),
      Pair(<<"P">>, <<"n","i","l">>, 4, <<>>),
      Pair(<<"Z","e","d">>, cfoo, 0, cfoo) }

RECURSIVE PairSeqs(_)
PairSeqs(n) ==
    IF n = 0 THEN { <<>> }
    ELSE PairSeqs(n - 1) \cup { Append(ps, p) : ps \in PairSeqs(n - 1), p \in Pairs }

\* the parameter list as written in the tag: the pairs, and a last name
\* without value when odd
ParamOf(pairs, odd) ==
    Join([i \in 1..Len(pairs) |-> pairs[i].name \o <<" ">> \o pairs[i].text]
            \o (IF odd THEN <<cKind>> ELSE <<>>), <<" ">>)

\* the rules of Foo: skip_nested_unless alone, or with required before or
\* after it
RulesOf(param, other) ==
    IF other = "before" THEN << RequiredRule, Rule(skipNestedUnlessTag, param) >>
    ELSE IF other = "after" THEN << Rule(skipNestedUnlessTag, param), RequiredRule >>
    ELSE << Rule(skipNestedUnlessTag, param) >>

ValIn(pairs, odd, other, fooPtr, val) ==
    [pairs |-> pairs, odd |-> odd, other |-> other, fooPtr |-> fooPtr,
     T |-> BarT(IF fooPtr THEN PtrTo(FooT) ELSE FooT, RulesOf(ParamOf(pairs, odd), other)),
     val |-> val]

FooValues == { <<<<>>>>, <<<<"x">>>> }

BarValues(fooPtr) ==
    { <<kind, IF fooPtr THEN foo ELSE foo[1], n, p, alt>> :
        kind \in {<<>>, cfoo, cfo, cbar},
        foo \in (IF fooPtr THEN { <<>> } ELSE {}) \cup { <<f>> : f \in FooValues },
        n \in {0, 1}, p \in { <<>>, <<1>> }, alt \in FooValues }

\* a value that is no struct, handed to the validator
NotAStruct == [pairs |-> <<>>, odd |-> FALSE, other |-> "none", fooPtr |-> FALSE,
               T |-> TyInt, val |-> 0]

ValInputs ==
    { ValIn(pairs, odd, other, FALSE, val) :
        pairs \in PairSeqs(MaxPairs), odd \in BOOLEAN,
        other \in {"none", "before", "after"}, val \in BarValues(FALSE) }

ValInputsPtr ==
    { ValIn(pairs, odd, "none", TRUE, val) :
        pairs \in PairSeqs(1), odd \in BOOLEAN, val \in BarValues(TRUE) }

InitValidate ==
    /\ cfgType = Scenarios[1].T
    /\ opts = Scenarios[1].opts
    /\ callerDef = Scenarios[1].def
    /\ callerHeap = Scenarios[1].cells
    /\ osArgs = <<>>
    /\ environ = {}
    /\ InitCommon
    /\ fkIn = <<>>
    /\ fkOut = <<>>
    /\ \/ valIn \in ValInputs
       \/ valIn \in ValInputsPtr
       \/ valIn = NotAStruct
    /\ valOut = <<>>
    /\ decIn = <<>>
    /\ decOut = <<>>
    /\ rtIn = <<>>
    /\ rtOut = <<>>
    /\ chkIn = <<>>
    /\ chkOut = <<>>
    /\ glob = <<>>

\* enhancedValidator.StructCtx on the value, with what the base validator
\* handed to the wrapper
ValidateConf ==
    /\ valOut = <<>>
    /\ valOut' = << [base |-> BaseStructCtx(valIn.T, valIn.val),
                     final |-> StructCtx(valIn.T, valIn.val)] >>
    /\ UNCHANGED <<scenarioVars, initVars, flagSet, viper, onceVars, pc, confPath, conf,
                   ret, calls, fkVars, valIn, decVars, rtVars, chkVars, glob>>

NextValidate == ValidateConf

SpecValidate == InitValidate /\ [][NextValidate]_vars

\* the failures under a path: of the field itself and of what is below it
IsUnder(ns, path) ==
    \/ ns = path
    \/ Len(ns) > Len(path) /\ SubSeq(ns, 1, Len(path) + 1) = path \o <<".">>

Under(errs, path) == SelectSeq(errs, LAMBDA e : IsUnder(e[1], path))

\* what a pair asks for holds of the value of Bar
Met(pair, val) == pair.idx # 0 /\ val[pair.idx] = pair.is

AllMet == \A i \in 1..Len(valIn.pairs) : Met(valIn.pairs[i], valIn.val)

\* the value of Foo: <<>> when it is a nil pointer, else << the struct >>
FooOf == IF valIn.fooPtr THEN valIn.val[2] ELSE << valIn.val[2] >>

\* the failures of the rules of a Foo at a path: Name is required
FooFailures(foo, path) ==
    IF foo[1] = <<>> THEN << <<path \o <<".">> \o cName, "required">> >> ELSE <<>>

\* the failures of the fields that are not gated: Kind is required, N >= 1
OtherFailures ==
    (IF valIn.val[1] = <<>> THEN << << <<".">> \o cKind, "required">> >> ELSE <<>>)
    \o (IF valIn.val[3] < 1 THEN << << <<".","N">>, "gte">> >> ELSE <<>>)

\* [C13] A nested struct gated by skip_nested_unless (and by no rule of its
\* own that fails): when every pair is met by the sibling resolved on the
\* parent, the rules of the nested struct are validated and their failures
\* reported under its path; when a pair is unmet or names no field of the
\* parent, the final result holds no failure of the nested struct nor of
\* the field; the failures of the other fields are reported either way.
C13_SkipNestedUnless ==
    (/\ valOut # <<>> /\ valIn.T # TyInt /\ ~valIn.odd
     /\ valIn.other = "none" \/ valIn.val[2] # << <<>> >>) =>
        LET out == valOut[1].final
            foo == <<".">> \o cFoo
            alt == <<".">> \o cAlt
        IN  /\ out.kind \in {"nil", "errors"}
            /\ AllMet =>
                   Under(out.errs, foo) = IF FooOf = <<>> THEN <<>>
                                          ELSE FooFailures(FooOf[1], foo)
            /\ ~AllMet => Under(out.errs, foo) = <<>>
            /\ Under(out.errs, alt) = IF valIn.val[1] = cbar
                                      THEN FooFailures(valIn.val[5], alt) ELSE <<>>
            /\ SelectSeq(out.errs, LAMBDA e : ~IsUnder(e[1], foo) /\ ~IsUnder(e[1], alt))
                   = OtherFailures

\* a pair is unmet: nothing of Foo is reported, the failure of Kind is
C13_Witness ==
    /\ valOut # <<>> /\ valIn.T # TyInt /\ ~valIn.odd /\ valIn.other = "none"
    /\ valIn.pairs = << Pair(cKind, cfoo, 1, cfoo) >>
    /\ valIn.val[1] = <<>> /\ valIn.val[2] = << <<>> >>
    /\ valOut[1].final.kind = "errors"
    /\ valOut[1].final.errs[1] = << <<".">> \o cKind, "required">>

\* every pair is met: the failure of Foo.Name is reported
C13_WitnessMet ==
    /\ valOut # <<>> /\ valIn.T # TyInt /\ ~valIn.odd /\ valIn.other = "none"
    /\ Len(valIn.pairs) = 2 /\ AllMet
    /\ valIn.val[2] = << <<>> >>
    /\ \E i \in 1..Len(valOut[1].final.errs) :
           valOut[1].final.errs[i] = << <<".">> \o cFoo \o <<".">> \o cName, "required">>

\* the pair names no field of the parent
C13_WitnessUnresolved ==
    /\ valOut # <<>> /\ valIn.T # TyInt /\ ~valIn.odd /\ valIn.other = "none"
    /\ valIn.pairs = << Pair(<<"Z","e","d">>, cfoo, 0, cfoo) >>
    /\ valIn.val[2] = << <<>> >> /\ valIn.val[1] = cfoo /\ valIn.val[3] = 1
    /\ valOut[1].final.kind = "nil"

\* the skip rule of Foo is evaluated: Foo is no nil pointer and the rule
\* before it, if any, has passed
SkipEvaluated ==
    /\ FooOf # <<>>
    /\ valIn.other = "before" => valIn.val[2] # << <<>> >>

\* [C14] When the parameter list of skip_nested_unless tokenizes to an odd
\* number of tokens, evaluating the rule panics with a message naming the
\* field; the validator yields neither a list of failures nor success.
C14_OddParamsPanic ==
    (valOut # <<>> /\ valIn.T # TyInt /\ valIn.odd /\ SkipEvaluated) =>
        /\ Len(parseOneOfParam2(ParamOf(valIn.pairs, valIn.odd))) % 2 = 1
        /\ valOut[1].base = [NoError EXCEPT !.kind = "panic", !.field = <<cFoo>>]
        /\ valOut[1].final = valOut[1].base

\* a quoted value holding a blank, then a name without value: three tokens
C14_Witness ==
    /\ valOut # <<>> /\ valIn.T # TyInt /\ valIn.odd /\ SkipEvaluated
    /\ valIn.pairs = << Pair(cKind, <<"'">> \o cfo \o <<"'">>, 1, cfo) >>
    /\ valIn.val[1] = cfo
    /\ valOut[1].final.kind = "panic"

\* the entries of a list that the skip rule reported
SkipEntries(errs) == {i \in 1..Len(errs) : errs[i][2] = skipNestedUnlessTag}

\* [C15] What the wrapped validator yields is the aggregate list of the base
\* validator without the entries whose rule is skip_nested_unless, in the
\* order of the base list, and no error when nothing remains; no error and
\* an error that is no aggregate list are handed back unchanged.
C15_WrapperFilters ==
    valOut # <<>> =>
        LET b == valOut[1].base
            f == valOut[1].final
            kept == (1..Len(b.errs)) \ SkipEntries(b.errs)
        IN  IF b.kind # "errors" THEN f = b
            ELSE IF kept = {} THEN f = NoError
            ELSE /\ f.kind = "errors"
                 /\ Len(f.errs) = Cardinality(kept)
                 /\ \A i \in kept :
                        f.errs[i - Cardinality({k \in SkipEntries(b.errs) : k < i})] = b.errs[i]

\* failures of Kind and N around the entry of Foo, before that of Alt
C15_Witness ==
    /\ valOut # <<>>
    /\ valOut[1].base.kind = "errors"
    /\ Len(valOut[1].base.errs) = 4
    /\ SkipEntries(valOut[1].base.errs) = {2, 4}
    /\ valOut[1].final.kind = "errors"
    /\ Len(valOut[1].final.errs) = 2

\* nothing remains
C15_WitnessNothingLeft ==
    /\ valOut # <<>>
    /\ valOut[1].base.kind = "errors"
    /\ SkipEntries(valOut[1].base.errs) = {1, 2}
    /\ Len(valOut[1].base.errs) = 2
    /\ valOut[1].final = NoError

\* the base validator rejects a value that is no struct
C15_WitnessInvalid ==
    /\ valOut # <<>>
    /\ valIn.T = TyInt
    /\ valOut[1].base.kind = "invalid"
    /\ valOut[1].final = valOut[1].base

\* the base validator reports nothing
C15_WitnessNil ==
    /\ valOut # <<>>
    /\ valIn.T # TyInt
    /\ valOut[1].base = NoError
    /\ valOut[1].final = NoError

\* [C16] When the skip condition of the nested field is unmet, only the
\* validation of its children is suppressed: the rule required declared on
\* the field itself, before or after skip_nested_unless in the tag, is still
\* evaluated, and its failure on a zero Foo is in the final result.
C16_OtherRulesStillReported ==
    (/\ valOut # <<>> /\ valIn.T # TyInt /\ ~valIn.odd /\ ~AllMet
     /\ valIn.other \in {"before", "after"}
     /\ valIn.val[2] = << <<>> >>) =>
        /\ valOut[1].final.kind = "errors"
        /\ Under(valOut[1].final.errs, <<".">> \o cFoo) = << << <<".">> \o cFoo, "required">> >>

\* the rule before skip_nested_unless is reported
C16_WitnessBefore ==
    /\ valOut # <<>> /\ valIn.T # TyInt /\ ~valIn.odd /\ ~AllMet
    /\ valIn.other = "before"
    /\ valIn.val[2] = << <<>> >>
    /\ Under(valOut[1].final.errs, <<".">> \o cFoo) = << << <<".">> \o cFoo, "required">> >>

\* the rule after skip_nested_unless is not
C16_WitnessAfter ==
    /\ valOut # <<>> /\ valIn.T # TyInt /\ ~valIn.odd /\ ~AllMet
    /\ valIn.other = "after"
    /\ valIn.val[2] = << <<>> >>
    /\ Under(valOut[1].final.errs, <<".">> \o cFoo) = <<>>

\* ------------------------------------------------------------------------
\* The decode hooks: a string coerced into a slice or into a map
\* ------------------------------------------------------------------------
\* strings.Trim(s, cutset)
RECURSIVE TrimLeftSet(_, _)
TrimLeftSet(s, cutset) ==
    IF s # <<>> /\ Head(s) \in cutset THEN TrimLeftSet(Tail(s), cutset) ELSE s

RECURSIVE TrimRightSet(_, _)
TrimRightSet(s, cutset) ==
    IF s # <<>> /\ s[Len(s)] \in cutset THEN TrimRightSet(SubSeq(s, 1, Len(s) - 1), cutset)
    ELSE s

Trim(s, cutset) == TrimRightSet(TrimLeftSet(s, cutset), cutset)

\* strings.Index(s, sep) for a separator of one character: 0 when absent
Index(s, sep) ==
    IF \E i \in 1..Len(s) : s[i] = sep
    THEN CHOOSE i \in 1..Len(s) : s[i] = sep /\ \A k \in 1..(i - 1) : s[k] # sep
    ELSE 0

\* strings.Split(s, sep): the parts between the separators, one part (the
\* string itself) when there is no separator
RECURSIVE Split(_, _)
Split(s, sep) ==
    LET i == Index(s, sep)
    IN  IF i = 0 THEN <<s>>
        ELSE <<SubSeq(s, 1, i - 1)>> \o Split(SubSeq(s, i + 1, Len(s)), sep)

\* a split at every separator (a mutation of SplitN)
SplitNAll(s, sep, n) == Split(s, sep)

\* strings.SplitN(s, sep, n) for n > 0: at most n parts, the last one the
\* unsplit remainder
RECURSIVE SplitN(_, _, _)
SplitN(s, sep, n) ==
    LET i == Index(s, sep)
    IN  IF n = 1 \/ i = 0 THEN <<s>>
        ELSE <<SubSeq(s, 1, i - 1)>> \o SplitN(SubSeq(s, i + 1, Len(s)), sep, n - 1)

\* what a parse function yields
Parsed(v) == [ok |-> TRUE, v |-> v]

NotParsed == [ok |-> FALSE, v |-> 0]

AllDigits(s) == s # <<>> /\ \A i \in 1..Len(s) : IsDigit(s[i])

Unsigned(s) == IF s # <<>> /\ Head(s) \in {"+", "-"} THEN Tail(s) ELSE s

Signed(s, n) == IF s # <<>> /\ Head(s) = "-" THEN 0 - n ELSE n

\* strconv.ParseBool
ParseBool(s) ==
    IF s \in { <<"1">>, <<"t">>, <<"T">>, <<"t","r","u","e">>, <<"T","R","U","E">>,
               <<"T","r","u","e">> } THEN Parsed(TRUE)
    ELSE IF s \in { <<"0">>, <<"f">>, <<"F">>, <<"f","a","l","s","e">>,
                    <<"F","A","L","S","E">>, <<"F","a","l","s","e">> } THEN Parsed(FALSE)
    ELSE NotParsed

\* strconv.ParseInt(s, 10, 64)
ParseInt64(s) ==
    IF AllDigits(Unsigned(s)) THEN Parsed(Signed(s, ParseDigits(Unsigned(s), 0)))
    ELSE NotParsed

\* strconv.ParseUint(s, 10, 64)
ParseUint(s) == IF AllDigits(s) THEN Parsed(ParseDigits(s, 0)) ELSE NotParsed

\* strconv.ParseFloat(s, 64) on a decimal literal without exponent: the
\* integer part and the digits of the fraction
ParseFloat(s) ==
    LET u == Unsigned(s)
        i == Index(u, ".")
        int == IF i = 0 THEN u ELSE SubSeq(u, 1, i - 1)
        frac == IF i = 0 THEN <<>> ELSE SubSeq(u, i + 1, Len(u))
    IN  IF /\ int \o frac # <<>>
           /\ \A k \in 1..Len(int) : IsDigit(int[k])
           /\ \A k \in 1..Len(frac) : IsDigit(frac[k])
        THEN Parsed(<<Signed(s, ParseDigits(int, 0)), frac>>)
        ELSE NotParsed

\* the seconds of a unit of time.ParseDuration, 0 for what is no such unit
UnitSeconds(u) ==
    IF u = <<"s">> THEN 1
    ELSE IF u = <<"m">> THEN 60
    ELSE IF u = <<"h">> THEN 3600
    ELSE 0

\* the groups of a duration: a number, then a unit up to the next digit
RECURSIVE DurationGroups(_)
DurationGroups(s) ==
    IF s = <<>> THEN Parsed(0)
    ELSE LET nd == IF \E i \in 1..Len(s) : ~IsDigit(s[i])
                   THEN (CHOOSE i \in 1..Len(s) :
                            ~IsDigit(s[i]) /\ \A k \in 1..(i - 1) : IsDigit(s[k])) - 1
                   ELSE Len(s)
             rest == SubSeq(s, nd + 1, Len(s))
             nu == IF \E i \in 1..Len(rest) : IsDigit(rest[i])
                   THEN (CHOOSE i \in 1..Len(rest) :
                            IsDigit(rest[i]) /\ \A k \in 1..(i - 1) : ~IsDigit(rest[k])) - 1
                   ELSE Len(rest)
             unit == UnitSeconds(SubSeq(rest, 1, nu))
             more == DurationGroups(SubSeq(rest, nu + 1, Len(rest)))
         IN  IF nd = 0 \/ unit = 0 \/ ~more.ok THEN NotParsed
             ELSE Parsed(ParseDigits(SubSeq(s, 1, nd), 0) * unit + more.v)

\* time.ParseDuration with the units s, m and h, in seconds: "0", or groups
\* of a number and a unit
ParseDuration(s) ==
    LET u == Unsigned(s)
    IN  IF u = <<"0">> THEN Parsed(0)
        ELSE IF u = <<>> THEN NotParsed
        ELSE LET g == DurationGroups(u)
             IN  IF g.ok THEN Parsed(Signed(s, g.v)) ELSE NotParsed

\* the parse function handed to parseSlice, applied to a string
ParseWith(parseFunc, s) ==
    IF parseFunc = "ParseBool" THEN ParseBool(s)
    ELSE IF parseFunc = "ParseFloat" THEN ParseFloat(s)
    ELSE IF parseFunc = "ParseDuration" THEN ParseDuration(s)
    ELSE IF parseFunc = "ParseInt" THEN ParseInt64(s)
    ELSE ParseUint(s)

\* what a hook yields: the value, or the error
HookResult(v, err) == [v |-> v, err |-> err]

\* parseSlice on every part, blank or not (a mutation of parseSlice)
parseSliceAlways(parts, parseFunc) ==
    IF \E i \in 1..Len(parts) : ~ParseWith(parseFunc, TrimSpace(parts[i])).ok
    THEN LET i == CHOOSE k \in 1..Len(parts) :
                      /\ ~ParseWith(parseFunc, TrimSpace(parts[k])).ok
                      /\ \A j \in 1..(k - 1) : ParseWith(parseFunc, TrimSpace(parts[j])).ok
         IN  HookResult(<<>>, Err("invalid value", NoType, parts[i]))
    ELSE HookResult([i \in 1..Len(parts) |-> ParseWith(parseFunc, TrimSpace(parts[i])).v], NoErr)

\* parseSlice: no element for a single blank part, else every part parsed
\* without the blanks around it; the error quotes the first part that does
\* not parse, as it stands
parseSlice(parts, parseFunc) ==
    IF Len(parts) = 0 \/ (Len(parts) = 1 /\ TrimSpace(parts[1]) = <<>>)
    THEN HookResult(<<>>, NoErr)
    ELSE IF \E i \in 1..Len(parts) : ~ParseWith(parseFunc, TrimSpace(parts[i])).ok
    THEN LET i == CHOOSE k \in 1..Len(parts) :
                      /\ ~ParseWith(parseFunc, TrimSpace(parts[k])).ok
                      /\ \A j \in 1..(k - 1) : ParseWith(parseFunc, TrimSpace(parts[j])).ok
         IN  HookResult(<<>>, Err("invalid value", NoType, parts[i]))
    ELSE HookResult([i \in 1..Len(parts) |-> ParseWith(parseFunc, TrimSpace(parts[i])).v], NoErr)

Separator == ","

PairSeparator == "="

Brackets == {"[", "]"}

\* the hook without the trimming of the brackets (a mutation of
\* StringToSliceHookFunc)
StringToSliceHookFuncNoTrim(to, data) ==
    IF to.kind # "slice" THEN HookResult(data, NoErr)
    ELSE LET elemType == to.elem
             parts == Split(data, Separator)
         IN  IF elemType.kind = "bool" THEN parseSlice(parts, "ParseBool")
             ELSE IF elemType.kind \in {"float32", "float64"} THEN parseSlice(parts, "ParseFloat")
             ELSE IF elemType.kind \in {"int", "int32", "int64"}
             THEN IF elemType = TyDuration THEN parseSlice(parts, "ParseDuration")
                  ELSE parseSlice(parts, "ParseInt")
             ELSE IF elemType.kind = "string" THEN HookResult(parts, NoErr)
             ELSE IF elemType.kind \in {"uint", "uint32", "uint64"}
             THEN parseSlice(parts, "ParseUint")
             ELSE HookResult(<<>>, Err("unsupported slice element type", elemType, <<>>))

\* StringToSliceHookFunc(",") from a string to the type to, for elements
\* that are neither structs nor bytes
StringToSliceHookFunc(to, data) ==
    IF to.kind # "slice" THEN HookResult(data, NoErr)
    ELSE LET elemType == to.elem
             parts == Split(Trim(data, Brackets), Separator)
         IN  IF elemType.kind = "bool" THEN parseSlice(parts, "ParseBool")
             ELSE IF elemType.kind \in {"float32", "float64"} THEN parseSlice(parts, "ParseFloat")
             ELSE IF elemType.kind \in {"int", "int32", "int64"}
             THEN IF elemType = TyDuration THEN parseSlice(parts, "ParseDuration")
                  ELSE parseSlice(parts, "ParseInt")
             ELSE IF elemType.kind = "string" THEN HookResult(parts, NoErr)
             ELSE IF elemType.kind \in {"uint", "uint32", "uint64"}
             THEN parseSlice(parts, "ParseUint")
             ELSE HookResult(<<>>, Err("unsupported slice element type", elemType, <<>>))

\* strconv.Atoi
Atoi(s) == ParseInt64(s)

\* the pairs from the i-th on put into result, up to the first that is
\* malformed or whose value does not parse
RECURSIVE MapPairs(_, _, _, _)
MapPairs(elemType, pairs, i, result) ==
    IF i > Len(pairs) THEN HookResult(result, NoErr)
    ELSE LET kv == SplitN(pairs[i], PairSeparator, 2)
         IN  IF Len(kv) # 2
             THEN HookResult(<<>>, Err("invalid key-value pair", NoType, pairs[i]))
             ELSE IF elemType.kind \notin {"int", "int64", "string"}
             THEN HookResult(<<>>, Err("unsupported map value type", elemType, <<>>))
             ELSE LET key == kv[1]
                      valueStr == kv[2]
                      value == IF elemType.kind = "int" THEN Atoi(TrimSpace(valueStr))
                               ELSE IF elemType.kind = "int64"
                               THEN ParseInt64(TrimSpace(valueStr))
                               ELSE Parsed(valueStr)
                  IN  IF ~value.ok
                      THEN HookResult(<<>>, Err("invalid value for key", NoType,
                                                <<valueStr, key>>))
                      ELSE MapPairs(elemType, pairs, i + 1, MapPut(result, key, value.v))

\* StringToMapHookFunc(",", "=") from a string to the type to
StringToMapHookFunc(to, data) ==
    IF to.kind # "map" THEN HookResult(data, NoErr)
    ELSE LET str == Trim(data, Brackets)
         IN  IF str = <<>> THEN HookResult({}, NoErr)
             ELSE IF to.key.kind # "string"
             THEN HookResult(<<>>, Err("only string keys are supported for map type",
                                       to.key, <<>>))
             ELSE MapPairs(to.elem, Split(str, Separator), 1, {})

\* the hooks composed by DecoderConfigOption, on a string: each hook is
\* handed what the one before it yielded, and leaves alone what is no
\* string any more
DecodeHook(to, data) ==
    LET r == StringToSliceHookFunc(to, data)
    IN  IF IsErr(r.err) \/ to.kind = "slice" THEN r
        ELSE StringToMapHookFunc(to, r.v)

\* ------------------------------------------------------------------------
\* The hooks on their own: every string up to a length over the characters
\* that matter, into slices and maps
\* ------------------------------------------------------------------------
MaxData == 4

SliceAlphabet == {"1", "s", " ", ",", "[", "]"}

MapAlphabet == {"1", "s", " ", ",", "=", "["}

RECURSIVE DataUpTo(_, _)
DataUpTo(alphabet, n) ==
    IF n = 0 THEN { <<>> }
    ELSE DataUpTo(alphabet, n - 1)
         \cup { Append(d, c) : d \in {x \in DataUpTo(alphabet, n - 1) : Len(x) = n - 1},
                               c \in alphabet }

\* []bool, []int, []uint, []float64, []string, []time.Duration, []int8
SliceTypes ==
    { SliceOf(Ty("bool")), SliceOf(TyInt), SliceOf(Ty("uint")), SliceOf(Ty("float64")),
      SliceOf(TyString), SliceOf(TyDuration), SliceOf(Ty("int8")) }

\* map[string]int, map[string]int64, map[string]string, map[string]bool,
\* map[int]string
MapTypes ==
    { MapOf(TyString, TyInt), MapOf(TyString, Ty("int64")), MapOf(TyString, TyString),
      MapOf(TyString, Ty("bool")), MapOf(TyInt, TyString) }

InitDecode ==
    /\ cfgType = Scenarios[1].T
    /\ opts = Scenarios[1].opts
    /\ callerDef = Scenarios[1].def
    /\ callerHeap = Scenarios[1].cells
    /\ osArgs = <<>>
    /\ environ = {}
    /\ InitCommon
    /\ fkIn = <<>>
    /\ fkOut = <<>>
    /\ valIn = <<>>
    /\ valOut = <<>>
    /\ \/ \E to \in SliceTypes, data \in DataUpTo(SliceAlphabet, MaxData) :
              decIn = [to |-> to, data |-> data]
       \/ \E to \in MapTypes, data \in DataUpTo(MapAlphabet, MaxData) :
              decIn = [to |-> to, data |-> data]
    /\ decOut = <<>>
    /\ rtIn = <<>>
    /\ rtOut = <<>>
    /\ chkIn = <<>>
    /\ chkOut = <<>>
    /\ glob = <<>>

\* the decoder applies the hooks to the string
DecodeString ==
    /\ decIn # <<>>
    /\ decOut = <<>>
    /\ decOut' = << DecodeHook(decIn.to, decIn.data) >>
    /\ UNCHANGED <<scenarioVars, initVars, flagSet, viper, onceVars, pc, confPath, conf,
                   ret, calls, fkVars, valVars, decIn, rtVars, chkVars, glob>>

NextDecode == DecodeString

SpecDecode == InitDecode /\ [][NextDecode]_vars

\* the string is empty or holds blanks only
Blank(s) == \A i \in 1..Len(s) : s[i] = " "

\* the element types the slice hook supports, and those it parses
SupportedElem(t) ==
    t.kind \in {"bool", "int", "int32", "int64", "uint", "uint32", "uint64",
                "float32", "float64", "string"}

ParsedElem(t) == SupportedElem(t) /\ t.kind # "string"

IntoSlice == decOut # <<>> /\ decIn.to.kind = "slice"

\* [C17] (as stated) For every supported element type, string included, an
\* empty or blank string coerced into the slice yields an empty slice.
C17_BlankYieldsEmptySlice ==
    (IntoSlice /\ SupportedElem(decIn.to.elem) /\ Blank(decIn.data)) =>
        /\ ~IsErr(decOut[1].err)
        /\ decOut[1].v = <<>>

\* [C17] (amended) An empty or blank string coerced into a slice of bool,
\* integer, unsigned integer, float or duration elements yields an empty
\* slice; coerced into a slice of strings it yields the one-element slice
\* holding that string.
C17_BlankParsedYieldsEmpty ==
    (IntoSlice /\ SupportedElem(decIn.to.elem) /\ Blank(decIn.data)) =>
        /\ ~IsErr(decOut[1].err)
        /\ ParsedElem(decIn.to.elem) => decOut[1].v = <<>>
        /\ decIn.to.elem.kind = "string" => decOut[1].v = << decIn.data >>

\* two blanks into []time.Duration
C17_Witness ==
    /\ IntoSlice
    /\ decIn.to.elem = TyDuration
    /\ decIn.data = <<" ", " ">>
    /\ decOut[1] = HookResult(<<>>, NoErr)

\* a blank into []string (TestStringToSliceHookFunc, "empty string slice")
C17_WitnessString ==
    /\ IntoSlice
    /\ decIn.to.elem = TyString
    /\ decIn.data = <<" ">>
    /\ decOut[1].v = << <<" ">> >>

\* str is data without the brackets at its ends
WellTrimmed(data, str) ==
    /\ str # <<>> => Head(str) \notin Brackets /\ str[Len(str)] \notin Brackets
    /\ \E a \in 0..Len(data) :
           /\ a + Len(str) <= Len(data)
           /\ SubSeq(data, a + 1, a + Len(str)) = str
           /\ \A i \in (1..a) \cup ((a + Len(str) + 1)..Len(data)) : data[i] \in Brackets

\* parts are the pieces of str between the separators, in order
WellSplit(str, parts, sep) ==
    /\ Join(parts, <<sep>>) = str
    /\ Len(parts) >= 1
    /\ \A i \in 1..Len(parts) : \A k \in 1..Len(parts[i]) : parts[i][k] # sep

\* the parse function of an element type
ParserOf(t) ==
    IF t.kind = "bool" THEN "ParseBool"
    ELSE IF t.kind \in {"float32", "float64"} THEN "ParseFloat"
    ELSE IF t = TyDuration THEN "ParseDuration"
    ELSE IF t.kind \in {"int", "int32", "int64"} THEN "ParseInt"
    ELSE "ParseUint"

\* the element a part stands for: a string as written or without the blanks
\* around it, any other element parsed without the blanks around it
ElementOf(t, part, trimStrings) ==
    IF t.kind = "string" THEN Parsed(IF trimStrings THEN TrimSpace(part) ELSE part)
    ELSE ParseWith(ParserOf(t), TrimSpace(part))

\* the coercion of a string that is not blank between its brackets into a
\* slice of supported scalars: one element per part in order, or the error
\* quoting the first part that does not parse
SliceCoerced(trimStrings) ==
    LET t == decIn.to.elem
        str == Trim(decIn.data, Brackets)
        parts == Split(str, Separator)
        bad == {i \in 1..Len(parts) : ~ElementOf(t, parts[i], trimStrings).ok}
    IN  (IntoSlice /\ SupportedElem(t) /\ ~Blank(str)) =>
            /\ WellTrimmed(decIn.data, str)
            /\ WellSplit(str, parts, Separator)
            /\ IF bad = {}
               THEN /\ ~IsErr(decOut[1].err)
                    /\ Len(decOut[1].v) = Len(parts)
                    /\ \A i \in 1..Len(parts) :
                           decOut[1].v[i] = ElementOf(t, parts[i], trimStrings).v
               ELSE LET i == CHOOSE k \in bad : \A j \in bad : k <= j
                    IN  decOut[1].err = Err("invalid value", NoType, parts[i])

C18_Witness ==
    /\ IntoSlice
    /\ decIn.to.elem = TyInt
    /\ decIn.data = <<"[", "1", ",", " ">>
    /\ decOut[1].err = Err("invalid value", NoType, <<" ">>)

C18_WitnessString ==
    /\ IntoSlice
    /\ decIn.to.elem = TyString
    /\ decIn.data = <<"s", " ", ",", "1">>
    /\ decOut[1] = HookResult(<< <<"s", " ">>, <<"1">> >>, NoErr)

IntoMap == decOut # <<>> /\ decIn.to.kind = "map"

\* a pair: whether it holds the key/value separator, and what stands before
\* and after the first one
HasSep(pair) == \E i \in 1..Len(pair) : pair[i] = PairSeparator

KeyOf(pair) == SubSeq(pair, 1, Index(pair, PairSeparator) - 1)

ValueStrOf(pair) == SubSeq(pair, Index(pair, PairSeparator) + 1, Len(pair))

\* the value of a pair for the value type t
ValueOf(t, pair) ==
    IF t.kind = "string" THEN Parsed(ValueStrOf(pair))
    ELSE ParseInt64(TrimSpace(ValueStrOf(pair)))

\* the coercion of the string str into a string-keyed map of int, int64 or
\* string values: the pairs in order, a later pair replacing an earlier one
\* of the same key, or the error of the first pair that is malformed or
\* whose value does not parse
MapCoerced(str) ==
    LET t == decIn.to.elem
        pairs == Split(str, Separator)
        bad == {i \in 1..Len(pairs) : ~HasSep(pairs[i]) \/ ~ValueOf(t, pairs[i]).ok}
    IN  /\ WellSplit(str, pairs, Separator)
        /\ IF bad = {}
           THEN /\ ~IsErr(decOut[1].err)
                /\ decOut[1].v =
                       { <<KeyOf(pairs[i]), ValueOf(t, pairs[i]).v>> :
                           i \in {k \in 1..Len(pairs) :
                                     \A j \in (k + 1)..Len(pairs) :
                                         KeyOf(pairs[j]) # KeyOf(pairs[k])} }
           ELSE LET i == CHOOSE k \in bad : \A j \in bad : k <= j
                IN  IF ~HasSep(pairs[i])
                    THEN decOut[1].err = Err("invalid key-value pair", NoType, pairs[i])
                    ELSE decOut[1].err = Err("invalid value for key", NoType,
                                             <<ValueStrOf(pairs[i]), KeyOf(pairs[i])>>)

\* a string-keyed map with a value type the hook supports
SupportedMap(to) == to.key.kind = "string" /\ to.elem.kind \in {"int", "int64", "string"}

\* [C19] (as stated) A non-empty string coerced into a string-keyed map is
\* split, as it stands, on the pair separator and each pair at the first
\* key/value separator only; a pair without that separator fails with an
\* error naming the pair, an integer value that does not parse with an
\* error naming the value and its key.
C19_MapSplitsAsWritten ==
    (IntoMap /\ SupportedMap(decIn.to) /\ decIn.data # <<>>) => MapCoerced(decIn.data)

\* [C19] (amended) As stated, of the string without the bracket characters
\* at its ends: when nothing is left between them the result is the empty
\* map, else what is left is split on the pair separator and each pair at
\* the first key/value separator only, with the two errors as stated.
C19_MapSplitsTrimmed ==
    (IntoMap /\ SupportedMap(decIn.to) /\ decIn.data # <<>>) =>
        LET str == Trim(decIn.data, Brackets)
        IN  /\ WellTrimmed(decIn.data, str)
            /\ IF str = <<>> THEN decOut[1] = HookResult({}, NoErr)
               ELSE MapCoerced(str)

\* the value holds the key/value separator
C19_Witness ==
    /\ IntoMap
    /\ decIn.to = MapOf(TyString, TyString)
    /\ decIn.data = <<"s", "=", "=", "1">>
    /\ decOut[1] = HookResult({ << <<"s">>, <<"=", "1">> >> }, NoErr)

\* a pair without the key/value separator
C19_WitnessPair ==
    /\ IntoMap
    /\ decIn.to = MapOf(TyString, TyInt)
    /\ decIn.data = <<"s", "=", "1", ",">>
    /\ decOut[1].err = Err("invalid key-value pair", NoType, <<>>)

\* an integer value that does not parse
C19_WitnessValue ==
    /\ IntoMap
    /\ decIn.to = MapOf(TyString, TyInt)
    /\ decIn.data = <<"1", "=", "s">>
    /\ decOut[1].err = Err("invalid value for key", NoType, << <<"s">>, <<"1">> >>)

\* the string in brackets
C19_WitnessBrackets ==
    /\ IntoMap
    /\ decIn.to = MapOf(TyString, TyInt)
    /\ decIn.data = <<"[", "s", "=", "1">>
    /\ decOut[1] = HookResult({ << <<"s">>, 1 >> }, NoErr)

\* [C20] For every input string, the coercion into a map whose value type
\* is not int, int64 or string is an error: it never yields a map.
C20_UnsupportedValueTypeFails ==
    (IntoMap /\ decIn.to.elem.kind \notin {"int", "int64", "string"}) =>
        IsErr(decOut[1].err)

\* a string that is not empty between its brackets is rejected
C20_WitnessRejected ==
    /\ IntoMap
    /\ decIn.to = MapOf(TyString, Ty("bool"))
    /\ decIn.data = <<"s", "=", "1">>
    /\ decOut[1].err = Err("unsupported map value type", Ty("bool"), <<>>)

\* the empty string is not
C20_WitnessEmpty ==
    /\ IntoMap
    /\ decIn.to = MapOf(TyString, Ty("bool"))
    /\ decIn.data = <<>>
    /\ decOut[1] = HookResult({}, NoErr)

\* ------------------------------------------------------------------------
\* A leaf set through its flag and loaded: the flag parses the text, the
\* store reads the flag back as a string (as an integer or a boolean for
\* the flags of these types), the decoder and its hooks turn what the store
\* holds into the type of the leaf
\* ------------------------------------------------------------------------
\* strconv.Itoa
RECURSIVE Itoa(_)
Itoa(n) ==
    IF n < 0 THEN <<"-">> \o Itoa(0 - n)
    ELSE IF n < 10 THEN <<DigitCh[n + 1]>>
    ELSE Itoa(n \div 10) \o <<DigitCh[(n % 10) + 1]>>

\* time.Duration.String of whole seconds
DurationString(n) ==
    LET a == IF n < 0 THEN 0 - n ELSE n
        h == a \div 3600
        m == (a % 3600) \div 60
        s == a % 60
    IN  (IF n < 0 THEN <<"-">> ELSE <<>>)
        \o (IF h > 0 THEN Itoa(h) \o <<"h">> ELSE <<>>)
        \o (IF h > 0 \/ m > 0 THEN Itoa(m) \o <<"m">> ELSE <<>>)
        \o Itoa(s) \o <<"s">>

\* every part parsed as it stands, or nothing
ParseEach(parts, parseFunc) ==
    IF \A i \in 1..Len(parts) : ParseWith(parseFunc, parts[i]).ok
    THEN Parsed([i \in 1..Len(parts) |-> ParseWith(parseFunc, parts[i]).v])
    ELSE NotParsed

\* the flag of a map of integers: the pairs of key=value, the value parsed
\* as it stands
RECURSIVE ParsePairs(_, _, _)
ParsePairs(pairs, i, out) ==
    IF i > Len(pairs) THEN Parsed(out)
    ELSE LET kv == SplitN(pairs[i], PairSeparator, 2)
         IN  IF Len(kv) # 2 \/ ~ParseInt64(kv[2]).ok THEN NotParsed
             ELSE ParsePairs(pairs, i + 1, MapPut(out, kv[1], ParseInt64(kv[2]).v))

\* flag.Value.Set of the flag registered with type ftype
LeafSet(ftype, s) ==
    IF ftype \in IntFlagTypes THEN ParseInt64(s)
    ELSE IF ftype = "bool" THEN ParseBool(s)
    ELSE IF ftype = "duration" THEN ParseDuration(s)
    ELSE IF ftype = "int64Slice" THEN ParseEach(Split(s, Separator), "ParseInt")
    ELSE IF ftype \in {"stringToInt", "stringToInt64"}
    THEN ParsePairs(Split(s, Separator), 1, {})
    ELSE Parsed(s)

\* the keys of a map in increasing order of length, the order in which the
\* flag writes a map of one key
RECURSIVE PairStrings(_)
PairStrings(m) ==
    IF m = {} THEN <<>>
    ELSE LET e == CHOOSE x \in m : \A y \in m : Len(x[1]) <= Len(y[1])
         IN  << e[1] \o <<PairSeparator>> \o Itoa(e[2]) >> \o PairStrings(m \ {e})

RECURSIVE JoinStrings(_, _)
JoinStrings(ss, sep) ==
    IF ss = <<>> THEN <<>>
    ELSE IF Len(ss) = 1 THEN ss[1]
    ELSE ss[1] \o <<sep>> \o JoinStrings(Tail(ss), sep)

\* flag.Value.String: slices and maps are written between brackets
LeafString(ftype, v) ==
    IF ftype \in IntFlagTypes THEN Itoa(v)
    ELSE IF ftype = "bool"
    THEN IF v THEN <<"t","r","u","e">> ELSE <<"f","a","l","s","e">>
    ELSE IF ftype = "duration" THEN DurationString(v)
    ELSE IF ftype = "int64Slice"
    THEN <<"[">> \o JoinStrings([i \in 1..Len(v) |-> Itoa(v[i])], Separator) \o <<"]">>
    ELSE IF ftype \in {"stringToInt", "stringToInt64"}
    THEN <<"[">> \o JoinStrings(PairStrings(v), Separator) \o <<"]">>
    ELSE v

\* the result of the hooks as a parse: the value, or nothing on an error
HookParsed(r) == IF IsErr(r.err) THEN NotParsed ELSE Parsed(r.v)

\* what the decoder makes of a string for a leaf of type t: the hooks for a
\* slice and a map, the duration parsed, a string as it is
DecodeLeaf(t, str) ==
    IF t.kind \in {"slice", "map"} THEN HookParsed(DecodeHook(t, str))
    ELSE IF t = TyDuration THEN ParseDuration(str)
    ELSE IF t.kind \in IntFlagTypes THEN ParseInt64(str)
    ELSE IF t.kind = "bool" THEN ParseBool(str)
    ELSE Parsed(str)

\* the value a load returns for a leaf of type t whose flag holds v
LoadLeaf(t, ftype, v) == DecodeLeaf(t, LeafString(ftype, v))

\* int, bool, string, time.Duration, []int64, map[string]int,
\* map[string]int64
LeafTypes ==
    { TyInt, Ty("bool"), TyString, TyDuration, SliceOf(Ty("int64")),
      MapOf(TyString, TyInt), MapOf(TyString, Ty("int64")) }

LeafAlphabet == {"1", "s", " ", ",", "=", "["}

InitRoundTrip ==
    /\ cfgType = Scenarios[1].T
    /\ opts = Scenarios[1].opts
    /\ callerDef = Scenarios[1].def
    /\ callerHeap = Scenarios[1].cells
    /\ osArgs = <<>>
    /\ environ = {}
    /\ InitCommon
    /\ fkIn = <<>>
    /\ fkOut = <<>>
    /\ valIn = <<>>
    /\ valOut = <<>>
    /\ decIn = <<>>
    /\ decOut = <<>>
    /\ \E t \in LeafTypes, text \in DataUpTo(LeafAlphabet, MaxData) :
           rtIn = [t |-> t, text |-> text]
    /\ rtOut = <<>>
    /\ chkIn = <<>>
    /\ chkOut = <<>>
    /\ glob = <<>>

\* the flag of the leaf is set to the text and the configuration is loaded
RoundTrip ==
    /\ rtIn # <<>>
    /\ rtOut = <<>>
    /\ LET ftype == FlagTypeFor(rtIn.t, Field(<<>>, <<>>, <<>>, <<>>)).ftype
           set == LeafSet(ftype, rtIn.text)
       IN  rtOut' = << [ftype |-> ftype,
                        set |-> set,
                        loaded |-> IF set.ok THEN LoadLeaf(rtIn.t, ftype, set.v)
                                   ELSE NotParsed] >>
    /\ UNCHANGED <<scenarioVars, initVars, flagSet, viper, onceVars, pc, confPath, conf,
                   ret, calls, fkVars, valVars, decVars, rtIn, chkVars, glob>>

NextRoundTrip == RoundTrip

SpecRoundTrip == InitRoundTrip /\ [][NextRoundTrip]_vars

\* the flag took the text
FlagWasSet == rtOut # <<>> /\ rtOut[1].set.ok

\* [C21] For every supported kind of leaf, a value set through the flag of
\* the leaf is the value a load returns for the leaf.
C21_FlagRoundTrip ==
    FlagWasSet => (rtOut[1].loaded.ok /\ rtOut[1].loaded.v = rtOut[1].set.v)

\* the same for the leaves that are no maps
C21_ScalarsAndSlices ==
    (FlagWasSet /\ rtIn.t.kind # "map") =>
        (rtOut[1].loaded.ok /\ rtOut[1].loaded.v = rtOut[1].set.v)

\* a map whose key starts with a bracket comes back without it
C21_WitnessLost ==
    /\ FlagWasSet
    /\ rtIn.t = MapOf(TyString, Ty("int64"))
    /\ rtIn.text = <<"[", "s", "=", "1">>
    /\ rtOut[1].set.v = { << <<"[", "s">>, 1 >> }
    /\ rtOut[1].loaded.v = { << <<"s">>, 1 >> }

\* a slice of integers comes back as it was set
C21_WitnessSlice ==
    /\ FlagWasSet
    /\ rtIn.t = SliceOf(Ty("int64"))
    /\ rtIn.text = <<"1", ",", "1", "1">>
    /\ rtOut[1].loaded = Parsed(<<1, 11>>)

\* ------------------------------------------------------------------------
\* Optional references after a load
\* ------------------------------------------------------------------------
\* every optional reference of the value v of type t is set, at every level
\* of indirection, on the paths that are exported and not ignored
RECURSIVE PointersSet(_, _)
PointersSet(t, v) ==
    IF t.ptr > 0 THEN v # <<>> /\ PointersSet(Deref(t), v[1])
    ELSE IF t.kind = "struct" /\ t.name = ""
    THEN \A i \in 1..Len(t.fields) :
            (IsExported(t.fields[i].name) /\ ~IsIgnoredTag(FieldTag(t.fields[i])))
                => PointersSet(t.fields[i].typ, v[i])
    ELSE TRUE

\* [C22] After a successful load every optional reference on an exported
\* path that is not ignored is set, at every level of indirection, also
\* when the default left it unset and no source has a value for it.
C22_PointersSet ==
    \A p \in Procs : Succeeded(p) => PointersSet(cfgType, ret[p].conf)

\* the same where a leaf lies below every optional reference
C22_PointersToLeavesSet ==
    \A p \in Procs : (Succeeded(p) /\ cfgType = CfgT) => PointersSet(cfgType, ret[p].conf)

\* the default left Auth unset and the load returned Auth -> {V2 -> -> 0}
C22_WitnessSet ==
    /\ Succeeded(1)
    /\ cfgType = CfgT
    /\ callerDef[3] = 0
    /\ ret[1].conf[3] = << << << <<0>> >> >> >>

\* the optional reference to a struct without a leaf is unset after the load
C22_WitnessUnset ==
    /\ Succeeded(1)
    /\ cfgType = CfgOptT
    /\ ret[1].conf[2] = <<>>

\* ------------------------------------------------------------------------
\* The configuration file of an invocation
\* ------------------------------------------------------------------------
\* the reserved flag --config in the flag registry, 0 when there is none
ReservedFlag == Lookup(flagSet.flags, cConfig)

\* the explicit path of invocation p, else the value of the reserved flag
ChosenPath(p) ==
    IF confPath[p] # <<>> THEN confPath[p]
    ELSE IF ReservedFlag # 0 THEN flagSet.flags[ReservedFlag].value
    ELSE <<>>

\* invocation p selects its file
SelectStep(p) == pc[p] = "setFile" /\ pc'[p] # "setFile"

\* invocation p reads a file
ReadStep(p) == pc[p] = "readFile" /\ pc'[p] # "readFile"

\* the reserved flag exists only without a flag registry of the caller; the
\* path selected is the explicit one, else the value of the reserved flag;
\* no path, no read
PathSelected(p) ==
    /\ initState = "ok" => ((ReservedFlag # 0) <=> ~opts.custom)
    /\ SelectStep(p) =>
          IF ChosenPath(p) = <<>>
          THEN pc'[p] = "unmarshal" /\ viper' = viper
          ELSE pc'[p] = "readFile" /\ confPath'[p] = ChosenPath(p)

\* [C23] In an invocation the file that is read is the explicit path when
\* there is one, else the value of the reserved flag --config, which exists
\* only when the caller handed in no flag registry; when both are empty the
\* invocation reads no file.
C23_FileRead ==
    [][\A p \in Procs :
          /\ PathSelected(p)
          /\ ReadStep(p) => viper.configFile = confPath[p]]_vars

\* the selection alone: the path the invocation hands to the store
C23_Selection == [][\A p \in Procs : PathSelected(p)]_vars

\* an invocation without explicit path has read the file named by --config
C23_WitnessReserved ==
    /\ Succeeded(1)
    /\ ~opts.custom
    /\ ret[1].path = PathA
    /\ ReservedFlag # 0 /\ flagSet.flags[ReservedFlag].value = PathA
    /\ viper.config = FileContent(PathA)

\* an invocation selected A and is about to read B, selected by the other
C23_WitnessOther ==
    /\ pc[1] = "readFile"
    /\ confPath[1] = PathA
    /\ viper.configFile = PathB

\* ------------------------------------------------------------------------
\* Two Initialize calls without WithFlagSet and without WithViper: each
\* call makes a flag registry of its own, opts.viperInstance is
\* viper.GetViper(), the store of the process, for both.  Both calls are
\* for the type CfgT, so the two loaders bind the same keys: a bind
\* replaces the flag bound to its key, and after the one-shot step of a
\* loader every key of the store is bound to a flag of that loader (owner).
\* ------------------------------------------------------------------------
Loaders == {1, 2}

\* the defaults of the two calls: Port 1 and Port 8
GlobalDefs == << CfgDefNil.def, [CfgDefNil.def EXCEPT ![1] = 8] >>

GlobalOpts == [custom |-> FALSE, envPrefix |-> EnvPrefix, hook |-> NoHook]

NoRegistry == [exists |-> FALSE, flags |-> <<>>, parsed |-> FALSE]

GlobalInit ==
    [fs |-> [i \in Loaders |-> NoRegistry],
     binds |-> [i \in Loaders |-> <<>>],
     done |-> [i \in Loaders |-> FALSE],
     onceErr |-> [i \in Loaders |-> NoErr],
     store |-> EmptyViper,
     owner |-> 0,
     ret |-> [i \in Loaders |-> NoRet],
     n |-> 0]

\* Initialize(def) of call i: the registry and the binds of the loader
InitializeCall(g, i) ==
    LET c == Slowly(<<>>, CfgT, GlobalDefs[i])
        acc0 == [err |-> NoErr, flags |-> WalkFlags(GlobalOpts, NoRegistry), binds |-> <<>>,
                 heap |-> c.heap]
        r == initializeRecursive(GlobalOpts, acc0, CfgT, c.v, <<>>)
    IN  [g EXCEPT !.fs[i] = [exists |-> TRUE, flags |-> r.flags, parsed |-> FALSE],
                  !.binds[i] = r.binds]

\* the binds from the k-th on, up to the first that fails
RECURSIVE RunBinds(_, _, _, _)
RunBinds(v, flags, binds, k) ==
    IF k > Len(binds) THEN [err |-> NoErr, v |-> v]
    ELSE LET r == RunBind(v, flags, binds[k])
         IN  IF IsErr(r.err) THEN r ELSE RunBinds(r.v, flags, binds, k + 1)

\* the one-shot step of loader i
OnceDo(g, i) ==
    IF g.done[i] THEN g
    ELSE LET p == ParseArgs(g.fs[i].flags, osArgs)
             g1 == [g EXCEPT !.fs[i].parsed = TRUE, !.fs[i].flags = p.flags, !.done[i] = TRUE]
             b == RunBinds(g.store, p.flags, g.binds[i], 1)
         IN  IF IsErr(p.err)
             THEN [g1 EXCEPT !.onceErr[i] = Err("failed to parse flags", NoType, p.err.key)]
             ELSE IF IsErr(b.err) THEN [g1 EXCEPT !.onceErr[i] = b.err, !.store = b.v]
             ELSE [g1 EXCEPT !.store = b.v, !.owner = i]

\* what the invocation returns
Result(c, e, path) == [done |-> TRUE, conf |-> c, err |-> e, path |-> path]

\* loader i invoked with the path arg on the state g, the steps of Initialize's
\* closure in their order: the state after it, with what it returned
LoadCall(g, i, arg) ==
    LET g1 == OnceDo(g, i)
        path == IF arg = <<>> THEN flagConfig(GlobalOpts, g1.fs[i]) ELSE arg
        g2 == IF path = <<>> THEN g1
              ELSE IF FileReadable(path)
              THEN [g1 EXCEPT !.store.configFile = path, !.store.config = FileContent(path)]
              ELSE [g1 EXCEPT !.store.configFile = path]
        r == Unmarshal(CfgT, g2.store, g2.fs[g2.owner].flags, environ)
        v == StructCtx(CfgT, r.v)
    IN  IF IsErr(g1.onceErr[i])
        THEN [g1 EXCEPT !.ret[i] = Result(ZeroConf(CfgT), g1.onceErr[i], arg)]
        ELSE IF path # <<>> /\ ~FileReadable(path)
        THEN [g2 EXCEPT !.ret[i] = Result(ZeroConf(CfgT),
                                          Err("failed to read config", NoType, path), path)]
        ELSE IF r.bad # {}
        THEN [g2 EXCEPT !.ret[i] = Result(ZeroConf(CfgT),
                                          Err("failed to unmarshal config", NoType,
                                              CHOOSE k \in r.bad : TRUE), path)]
        ELSE IF v.kind # "nil"
        THEN [g2 EXCEPT !.ret[i] = Result(ZeroConf(CfgT),
                                          Err("validation failed for config", NoType, <<>>),
                                          path)]
        ELSE [g2 EXCEPT !.ret[i] = Result(r.v, NoErr, path)]

\* the argument lists and environments of the two calls
GlobalEnvironments == { Environments[1], Environments[2], Environments[5] }

InitGlobal ==
    /\ cfgType = CfgT
    /\ opts = GlobalOpts
    /\ callerDef = GlobalDefs[1]
    /\ callerHeap = <<>>
    /\ \E e \in GlobalEnvironments :
        /\ osArgs = e.args
        /\ environ = e.env
    /\ InitCommon
    /\ fkIn = <<>>
    /\ fkOut = <<>>
    /\ valIn = <<>>
    /\ valOut = <<>>
    /\ decIn = <<>>
    /\ decOut = <<>>
    /\ rtIn = <<>>
    /\ rtOut = <<>>
    /\ chkIn = <<>>
    /\ chkOut = <<>>
    /\ glob = GlobalInit

GlobalUnchanged ==
    UNCHANGED <<scenarioVars, initVars, flagSet, viper, onceVars, pc, confPath, conf,
                ret, calls, fkVars, valVars, decVars, rtVars, chkVars>>

\* loader_i, err := confx.Initialize(def_i)
InitializeGlobal(i) ==
    /\ glob # <<>>
    /\ ~glob.fs[i].exists
    /\ glob' = InitializeCall(glob, i)
    /\ GlobalUnchanged

\* conf, err := loader_i(ctx, path)
LoadGlobal(i, path) ==
    /\ glob # <<>>
    /\ glob.fs[i].exists
    /\ glob.n <= MaxCalls
    /\ glob' = [LoadCall(glob, i, path) EXCEPT !.n = glob.n + 1]
    /\ GlobalUnchanged

NextGlobal ==
    \/ \E i \in Loaders : InitializeGlobal(i)
    \/ \E i \in Loaders, path \in PathChoices : LoadGlobal(i, path)

SpecGlobal == InitGlobal /\ [][NextGlobal]_vars

\* what loader i returns when it is invoked with path in the state g
WouldReturn(g, i, path) == LoadCall(g, i, path).ret[i]

\* the step is one of the other call: its Initialize or an invocation of
\* its loader
StepOfOther(i) ==
    \E j \in Loaders \ {i} : glob'.fs[j] # glob.fs[j] \/ glob'.ret[j] # glob.ret[j]
        \/ glob'.done[j] # glob.done[j]

\* [C24] Without a flag registry and a store of the caller, the registry
\* and the store are those of the one Initialize call: the binds made and
\* the files read by the loader of one call never change what the loader
\* of the other call returns, and never its registry.
C24_CallsIndependent ==
    [][\A i \in Loaders :
          (glob.fs[i].exists /\ StepOfOther(i)) =>
              /\ glob'.fs[i] = glob.fs[i]
              /\ \A path \in PathChoices :
                     WouldReturn(glob', i, path) = WouldReturn(glob, i, path)]_vars

\* the registry alone: no step of the other call changes it
C24_RegistryScoped ==
    [][\A i \in Loaders :
          (glob.fs[i].exists /\ StepOfOther(i)) => glob'.fs[i] = glob.fs[i]]_vars

\* the loader of the first call, default Port 1 and nothing else set,
\* returns Port 8, the default of the second call
C24_WitnessDefault ==
    /\ glob # <<>>
    /\ osArgs = <<>> /\ environ = {}
    /\ glob.owner = 2
    /\ glob.ret[1].done /\ ~IsErr(glob.ret[1].err)
    /\ glob.ret[1].path = <<>>
    /\ glob.store.config = {}
    /\ glob.ret[1].conf[1] = 8

\* the loader of the second call returns the file read by the first
C24_WitnessFile ==
    /\ glob # <<>>
    /\ osArgs = <<>> /\ environ = {}
    /\ glob.ret[1].done /\ glob.ret[1].path = PathA
    /\ glob.ret[2].done /\ glob.ret[2].path = <<>>
    /\ glob.owner = 2
    /\ glob.ret[2].conf[1] = 2

\* ------------------------------------------------------------------------
\* The match of a sibling on its own: a parent struct with the one sibling
\* S, every kind of sibling, every expected text
\* ------------------------------------------------------------------------
cSib == <<"S">>

\* struct { S <t> }
SibT(t) == StructOf(<< Fld(cSib, <<>>, t) >>)

cs == <<"s">>

\* the siblings: type and value
MatchInputs ==
    << [t |-> TyInt, v |-> 0], [t |-> TyInt, v |-> 1], [t |-> Ty("int8"), v |-> 11],
       [t |-> Ty("uint"), v |-> 0], [t |-> Ty("uint8"), v |-> 3],
       [t |-> Ty("float64"), v |-> Float(0, <<>>)],
       [t |-> Ty("float64"), v |-> Float(3, <<>>)],
       [t |-> Ty("float32"), v |-> Float(1, <<"5">>)],
       [t |-> Ty("bool"), v |-> TRUE], [t |-> Ty("bool"), v |-> FALSE],
       [t |-> TyString, v |-> <<>>], [t |-> TyString, v |-> cs],
       [t |-> TyString, v |-> cNil], [t |-> TyString, v |-> <<"3">>],
       [t |-> SliceOf(TyString), v |-> <<>>],
       [t |-> SliceOf(TyString), v |-> << cs, cs, cs >>],
       [t |-> MapOf(TyString, TyInt), v |-> {}],
       [t |-> MapOf(TyString, TyInt), v |-> { <<cs, 1>> }],
       [t |-> [Ty("array") EXCEPT !.elem = TyInt], v |-> <<0, 0, 0>>],
       [t |-> PtrTo(TyString), v |-> <<>>], [t |-> PtrTo(TyString), v |-> << cs >>],
       [t |-> PtrTo(TyString), v |-> << cNil >>],
       [t |-> PtrTo(TyInt), v |-> <<>>], [t |-> PtrTo(TyInt), v |-> << 3 >>],
       [t |-> PtrTo(PtrTo(TyInt)), v |-> <<>>],
       [t |-> PtrTo(PtrTo(TyInt)), v |-> << <<>> >>],
       [t |-> PtrTo(PtrTo(TyInt)), v |-> << << 1 >> >>],
       [t |-> PtrTo(SliceOf(TyString)), v |-> << << cs >> >>],
       [t |-> BaseT, v |-> << 1 >>], [t |-> TyTime, v |-> 0] >>

\* the expected texts
MatchTexts ==
    { <<>>, <<"0">>, <<"1">>, <<"3">>, <<"1","1">>, <<"1",".","5">>, <<"3",".","0">>,
      <<"1",".","5","0">>, <<".","5">>, cTrue, <<"T","R","U","E">>, <<"f","a","l","s","e">>,
      cNil, cs, <<"<", "struct", " Value>">> }

InitMatch ==
    /\ cfgType = Scenarios[1].T
    /\ opts = Scenarios[1].opts
    /\ callerDef = Scenarios[1].def
    /\ callerHeap = Scenarios[1].cells
    /\ osArgs = <<>>
    /\ environ = {}
    /\ InitCommon
    /\ fkIn = <<>>
    /\ fkOut = <<>>
    /\ valIn = <<>>
    /\ valOut = <<>>
    /\ decIn = <<>>
    /\ decOut = <<>>
    /\ rtIn = <<>>
    /\ rtOut = <<>>
    /\ \E k \in 1..Len(MatchInputs), text \in MatchTexts :
           chkIn = [t |-> MatchInputs[k].t, v |-> MatchInputs[k].v, value |-> text]
    /\ chkOut = <<>>
    /\ glob = <<>>

\* requireCheckFieldValue(fl, "S", value, false) on the parent
CheckField ==
    /\ chkIn # <<>>
    /\ chkOut = <<>>
    /\ chkOut' = << [returns |-> requireCheckFieldValueReturns(SibT(chkIn.t), <<chkIn.v>>, cSib),
                     is |-> requireCheckFieldValue(SibT(chkIn.t), <<chkIn.v>>, cSib,
                                                   chkIn.value, FALSE)] >>
    /\ UNCHANGED <<scenarioVars, initVars, flagSet, viper, onceVars, pc, confPath, conf,
                   ret, calls, fkVars, valVars, decVars, rtVars, chkIn, glob>>

NextMatch == CheckField

SpecMatch == InitMatch /\ [][NextMatch]_vars

\* the text parsed as an integer and as a decimal number; a text that is no
\* number reads as zero
AsInteger(text) == IF ParseUint(text).ok THEN ParseUint(text).v ELSE 0

AsDecimal(text) ==
    IF ParseFloat(text).ok
    THEN <<ParseFloat(text).v[1], TrimRightSet(ParseFloat(text).v[2], {"0"})>>
    ELSE <<0, <<>>>>

\* the match the kind of the sibling decides
RECURSIVE MatchByKind(_, _, _)
MatchByKind(t, v, text) ==
    IF t.ptr > 0
    THEN IF v = <<>> THEN text = <<"n","i","l">> ELSE MatchByKind(Deref(t), v[1], text)
    ELSE IF t.kind \in {"int", "int8", "int16", "int32", "int64",
                        "uint", "uint8", "uint16", "uint32", "uint64"}
    THEN v = AsInteger(text)
    ELSE IF t.kind \in {"float32", "float64"} THEN v = AsDecimal(text)
    ELSE IF t.kind = "bool" THEN v <=> (text = <<"t","r","u","e">>)
    ELSE IF t.kind \in {"slice", "array"} THEN Len(v) = AsInteger(text)
    ELSE IF t.kind = "map" THEN Cardinality(v) = AsInteger(text)
    ELSE IF t.kind = "string" THEN v = text
    ELSE text = <<"<", t.kind, " Value>">>

C25_WitnessFloat ==
    /\ chkOut # <<>>
    /\ chkIn.t = Ty("float32")
    /\ chkIn.value = <<"1",".","5","0">>
    /\ chkOut[1].is

\* the number of elements of a slice
C25_WitnessSlice ==
    /\ chkOut # <<>>
    /\ chkIn.t = SliceOf(TyString)
    /\ chkIn.v # <<>>
    /\ chkIn.value = <<"3">>
    /\ chkOut[1].is

\* an optional reference unset at its second level
C25_WitnessNil ==
    /\ chkOut # <<>>
    /\ chkIn.t = PtrTo(PtrTo(TyInt))
    /\ chkIn.v = << <<>> >>
    /\ chkIn.value = <<"n","i","l">>
    /\ chkOut[1].is

\* ------------------------------------------------------------------------
\* The parse of the arguments in the one-shot step
\* ------------------------------------------------------------------------
\* the caller has parsed its registry, the loader has not
CallerParsed == flagSet.parsed /\ parseRuns = 0

NoBindRun == \A i \in 1..Len(bindRuns) : bindRuns[i] = 0

\* the loader's own parse has failed
OwnParseFailed == parseRuns = 1 /\ onceErr.kind = "failed to parse flags"

\* no source but the flag has a value for leaf l
OnlyFlag(l) ==
    /\ ~MapHas(environ, BoundEnv(l.path))
    /\ ~MapHas(viper.config, ToLower(l.path))

\* [C26] In the one-shot step the loader parses the arguments only if the
\* caller has not marked the registry as parsed, and before any bind runs.
\* After a parse of the caller, even a failed one, the loader does not
\* parse, goes on to the binds, and a leaf whose flag was not set keeps its
\* default.  When the loader's own parse fails no bind is run and the error
\* is returned.
C26_ParseBeforeBind ==
    /\ [][\A p \in Procs :
            /\ parseRuns' # parseRuns =>
                  /\ ~flagSet.parsed /\ parseRuns = 0 /\ NoBindRun
                  /\ pc[p] = "parse" => (IsErr(ParseArgs(flagSet.flags, osArgs).err)
                                            <=> (OwnParseFailed' /\ pc'[p] = "unlock"))
            /\ (CallerParsed /\ pc[p] = "parse" /\ pc'[p] # "parse") =>
                  /\ flagSet' = flagSet /\ parseRuns' = 0
                  /\ onceErr' = onceErr /\ pc'[p] = "bind"
            /\ (CallerParsed /\ opts.hook.mode = "none"
                    /\ pc[p] = "unmarshal" /\ pc'[p] = "validate") =>
                  \A i \in 1..Len(Leaves) :
                      (~BoundFlag(Leaves[i].path).changed /\ OnlyFlag(Leaves[i])) =>
                          ConfAt(cfgType, conf'[p], Leaves[i].loc)
                              = DefAt(callerHeap, cfgType, callerDef, Leaves[i].loc)]_vars
    /\ [](CallerParsed =>
            \A i \in 1..Len(flagSet.flags) :
                ~flagSet.flags[i].changed => flagSet.flags[i].value = flagSet.flags[i].def)
    /\ [](OwnParseFailed =>
            /\ NoBindRun
            /\ viper.pflags = {} /\ viper.env = {}
            /\ \A p \in Procs : Returned(p) => EqErr(ret[p].err, onceErr))

\* the caller's parse took --host=4 and failed on --port=y; the loader did
\* not parse, ran the binds and returned Host 4 and the default Port 1
C26_Witness ==
    /\ opts.custom
    /\ cfgType = CfgT
    /\ osArgs = << Arg(cHost, <<"4">>), Arg(cPort, <<"y">>) >>
    /\ CallerParsed
    /\ Succeeded(1)
    /\ \A i \in 1..Len(bindRuns) : bindRuns[i] = 1
    /\ ret[1].path = <<>>
    /\ ret[1].conf[1] = 1
    /\ ret[1].conf[2] = <<4>>

\* the loader's own parse failed on --port=y and the invocation returned
\* the error
C26_WitnessOwn ==
    /\ ~opts.custom
    /\ osArgs = << Arg(cHost, <<"4">>), Arg(cPort, <<"y">>) >>
    /\ OwnParseFailed
    /\ Returned(1)
    /\ EqErr(ret[1].err, onceErr)

\* ------------------------------------------------------------------------
\* Invocations of one loader with the sources changing between them: the
\* caller sets a flag of its registry, the environment changes, a file
\* fails the validation
\* ------------------------------------------------------------------------
LaterScenarios == { LoadScenarios[1], LoadScenarios[3] }

LaterEnvironments == { Environments[1], Environments[2], Environments[6], Environments[7] }

\* what the caller sets and what the environment changes to
LaterArgs == { Arg(cPort, <<"6">>), Arg(cHost, <<"6">>) }

LaterEnv == { <<cEnvPort, <<"9">> >>, <<cEnvHost, <<"3">> >> }

InitLater ==
    /\ \E sc \in LaterScenarios, e \in LaterEnvironments :
        /\ cfgType = sc.T
        /\ opts = sc.opts
        /\ callerDef = sc.def
        /\ callerHeap = sc.cells
        /\ osArgs = e.args
        /\ environ = e.env
    /\ InitCommon
    /\ fkIn = <<>>
    /\ fkOut = <<>>
    /\ valIn = <<>>
    /\ valOut = <<>>
    /\ decIn = <<>>
    /\ decOut = <<>>
    /\ rtIn = <<>>
    /\ rtOut = <<>>
    /\ chkIn = <<>>
    /\ chkOut = <<>>
    /\ glob = <<>>

\* no invocation is running and one has been made
BetweenInvocations == calls >= 1 /\ \A p \in Procs : pc[p] = "idle"

\* flagSet.Parse([]string{"--name=val"}) by the caller, on its own registry
CallerSet(a) ==
    /\ initState = "ok"
    /\ opts.custom
    /\ BetweenInvocations
    /\ flagSet' = [flagSet EXCEPT !.parsed = TRUE,
                                  !.flags = ParseArgs(flagSet.flags, <<a>>).flags]
    /\ flagSet' # flagSet
    /\ UNCHANGED <<scenarioVars, initVars, viper, onceVars, pc, confPath, conf, ret,
                   calls, fkVars, valVars, decVars, rtVars, chkVars, glob>>

\* os.Setenv(name, val)
Setenv(e) ==
    /\ initState = "ok"
    /\ BetweenInvocations
    /\ environ' = MapPut(environ, e[1], e[2])
    /\ environ' # environ
    /\ UNCHANGED <<cfgType, opts, callerDef, callerHeap, osArgs, initVars, flagSet, viper,
                   onceVars, pc, confPath, conf, ret, calls, fkVars, valVars, decVars,
                   rtVars, chkVars, glob>>

NextLater ==
    \/ Next
    \/ \E p \in Procs : Call(p, PathZero)
    \/ \E a \in LaterArgs : CallerSet(a)
    \/ \E e \in LaterEnv : Setenv(e)

SpecLater == InitLater /\ [][NextLater]_vars

\* the flag or the environment has a value for leaf l
FromFlagOrEnv(l) ==
    \/ BoundFlag(l.path).changed
    \/ MapHas(environ, BoundEnv(l.path)) /\ MapGet(environ, BoundEnv(l.path)) # <<>>

\* [C27] The bound sources are read at every invocation: after a flag was
\* set or an environment variable changed between two invocations of a
\* loader, the later invocation unmarshals, for every leaf the flag or the
\* environment has a value for, the value they have then, the flag first;
\* no bind and no parse of the loader runs a second time.
C27_SourcesReadEachTime ==
    /\ [][\A p \in Procs :
            (pc[p] = "unmarshal" /\ pc'[p] = "validate") =>
                \A i \in 1..Len(Leaves) :
                    FromFlagOrEnv(Leaves[i]) =>
                        ConfAt(cfgType, conf'[p], Leaves[i].loc)
                            = IF BoundFlag(Leaves[i].path).changed
                              THEN BoundFlag(Leaves[i].path).value
                              ELSE ParseInt(MapGet(environ, BoundEnv(Leaves[i].path)))]_vars
    /\ [](parseRuns <= 1 /\ \A i \in 1..Len(bindRuns) : bindRuns[i] <= 1)

\* the first invocation returned the default Port 1, the caller set
\* --port=6, the second invocation returned Port 6
C27_Witness ==
    /\ opts.custom
    /\ osArgs = <<>> /\ environ = {}
    /\ ret[1].done /\ ~IsErr(ret[1].err) /\ ret[1].conf[1] = 1
    /\ pc[1] = "idle"
    /\ Succeeded(2)
    /\ ret[2].conf[1] = 6
    /\ \A i \in 1..Len(bindRuns) : bindRuns[i] = 1

\* the first invocation returned Port 1, the environment variable of port
\* was set to 9, the second invocation returned Port 9
C27_WitnessEnv ==
    /\ ~opts.custom
    /\ osArgs = <<>>
    /\ environ = { <<cEnvPort, <<"9">> >> }
    /\ ret[1].done /\ ~IsErr(ret[1].err) /\ ret[1].conf[1] = 1
    /\ pc[1] = "idle"
    /\ Succeeded(2)
    /\ ret[2].conf[1] = 9
    /\ \A i \in 1..Len(bindRuns) : bindRuns[i] = 1

\* ------------------------------------------------------------------------
\* An invocation without a file after one with a file
\* ------------------------------------------------------------------------
\* [C28] An invocation with no file path, the argument and the value of
\* --config both empty, returns no value of a file: every leaf has the
\* value of its flag, of its environment variable or its default, also
\* when an earlier invocation of the loader read a file into the store.
C28_NoPathNoFileValue ==
    \A p \in Procs :
        (Succeeded(p) /\ ret[p].path = <<>>) =>
            \A i \in 1..Len(Leaves) :
                ConfAt(cfgType, ret[p].conf, Leaves[i].loc) = ByPrecedence(Leaves[i], <<>>)

\* the first invocation read file a, the second had no path and returned
\* Port 2 of file a for the default Port 1
C28_WitnessStale ==
    /\ osArgs = <<>> /\ environ = {}
    /\ cfgType = CfgT
    /\ ret[1].done /\ ret[1].path = PathA /\ pc[1] = "idle"
    /\ Succeeded(2)
    /\ ret[2].path = <<>>
    /\ ret[2].conf[1] = 2

\* ------------------------------------------------------------------------
\* Two invocations with different files
\* ------------------------------------------------------------------------
\* invocations 1 and 2 were handed the files a and b, in either order
TwoFiles == {ret[1].path, ret[2].path} = {PathA, PathB}

\* [C30] When two invocations of a loader run with the different files a
\* and b, under every interleaving of their selecting, reading and
\* unmarshalling each returns the values of its own file, never those of
\* the file of the other.
C30_OwnFile ==
    (Succeeded(1) /\ Succeeded(2) /\ TwoFiles) =>
        \A p \in Procs :
            \A i \in 1..Len(Leaves) :
                ConfAt(cfgType, ret[p].conf, Leaves[i].loc)
                    = ByPrecedence(Leaves[i], ret[p].path)

\* invocation 1, handed file a, unmarshals while the store holds file b,
\* read by invocation 2 in between
C30_WitnessOther ==
    /\ osArgs = <<>> /\ environ = {}
    /\ pc[1] = "unmarshal" /\ confPath[1] = PathA
    /\ pc[2] \in {"unmarshal", "validate"} /\ confPath[2] = PathB
    /\ viper.config = FileContent(PathB)

\* both returned Port 5 of file b
C30_WitnessBoth ==
    /\ osArgs = <<>> /\ environ = {}
    /\ cfgType = CfgT
    /\ Succeeded(1) /\ Succeeded(2)
    /\ ret[1].path = PathA /\ ret[2].path = PathB
    /\ ret[1].conf[1] = 5 /\ ret[2].conf[1] = 5

\* ------------------------------------------------------------------------
\* A failure after the one-shot step
\* ------------------------------------------------------------------------
AfterOnce == {"setFile", "readFile", "unmarshal", "validate"}

\* the files that can be read and hold values that pass the validation
ValidFiles == {PathA, PathB}

LaterFailures ==
    {"failed to read config", "failed to unmarshal config", "validation failed for config"}

\* with file f merged every leaf has a value that is a number, and Port is
\* at least 1
SourcesFine(f) ==
    \A i \in 1..Len(Leaves) :
        /\ ByPrecedence(Leaves[i], f) >= 0
        /\ Leaves[i].path = cPort => ByPrecedence(Leaves[i], f) >= 1

\* the instance c has the values the precedence order gives with file f
HasValuesOf(c, f) ==
    \A i \in 1..Len(Leaves) : ConfAt(cfgType, c, Leaves[i].loc) = ByPrecedence(Leaves[i], f)

\* [C29] A failure after the one-shot step (a file that cannot be read, an
\* unmarshal failure, a validation failure) is returned to its invocation
\* and not recorded: the steps after the one-shot step leave the gate and
\* the recorded error as they are, an invocation returns the recorded error
\* only when the one-shot step failed, and an invocation that reads a
\* readable file with valid values succeeds whatever an earlier invocation
\* returned.
C29_FailureNotRecorded ==
    [][\A p \in Procs :
          /\ (pc[p] \in AfterOnce /\ pc'[p] # pc[p]) =>
                /\ once' = once /\ onceErr' = onceErr
                /\ bindRuns' = bindRuns /\ parseRuns' = parseRuns
          /\ (pc[p] = "checkErr" /\ pc'[p] # pc[p]) =>
                IF IsErr(onceErr) THEN pc'[p] = "ret" /\ EqErr(ret'[p].err, onceErr)
                ELSE pc'[p] = "setFile"
          /\ (pc[p] = "readFile" /\ pc'[p] # pc[p] /\ viper.configFile \in ValidFiles) =>
                pc'[p] = "unmarshal" /\ viper'.config = FileContent(viper.configFile)
          /\ \A f \in ValidFiles :
                /\ (pc[p] = "unmarshal" /\ pc'[p] # pc[p]
                        /\ viper.config = FileContent(f) /\ SourcesFine(f)) =>
                      pc'[p] = "validate" /\ HasValuesOf(conf'[p], f)
                /\ (pc[p] = "validate" /\ pc'[p] # pc[p]
                        /\ HasValuesOf(conf[p], f) /\ SourcesFine(f)) =>
                      /\ pc'[p] = "ret"
                      /\ ~IsErr(ret'[p].err)
                      /\ ret'[p].conf = conf[p]]_vars

\* invocation 1 failed the validation on file z (Port 0); invocation 2,
\* made after it with file a, succeeded
C29_Witness ==
    /\ osArgs = <<>> /\ environ = {}
    /\ ret[1].done /\ ret[1].path = PathZero /\ pc[1] = "idle"
    /\ ret[1].err.kind = "validation failed for config"
    /\ ~IsErr(onceErr)
    /\ Succeeded(2)
    /\ ret[2].path = PathA
    /\ ret[2].conf[1] = 2

\* invocation 1 could not read its file; invocation 2 succeeded with file b
C29_WitnessUnreadable ==
    /\ osArgs = <<>> /\ environ = {}
    /\ ret[1].done /\ ret[1].path = PathMissing /\ pc[1] = "idle"
    /\ ret[1].err.kind = "failed to read config"
    /\ Succeeded(2)
    /\ ret[2].path = PathB
    /\ ret[2].conf[1] = 5

\* invocation 1 failed to unmarshal the environment variable of host; it
\* was set to a number and invocation 2 succeeded with file a
C29_WitnessUnmarshal ==
    /\ ret[1].done /\ pc[1] = "idle"
    /\ ret[1].err.kind = "failed to unmarshal config"
    /\ Succeeded(2)
    /\ ret[2].path = PathA

====
